---- MODULE Spec2Model ----
(***************************************************************************)
(* A model of snob's minimum-message-length Gaussian mixture search.      *)
(*                                                                         *)
(* SpecKA  : the perturbation search of mixture_ka.py                      *)
(*           (GaussianMixture._fit_kasarapu_allison).                      *)
(* SpecMS  : the search of mixture_search.py (GaussianMixture.fit).        *)
(* SpecEM  : one run of _expectation_maximization.                         *)
(* SpecOps : one call of split_component, delete_component or              *)
(*           merge_component on arrays held by reference.                  *)
(*                                                                         *)
(* Message lengths are real numbers in the code; the search only compares  *)
(* them, so they are drawn from the finite ordered set MLs.  The four      *)
(* arrays of a mixture (mu, cov, weight, responsibility) are represented   *)
(* by their number of components and by the call that produced them.       *)
(***************************************************************************)
EXTENDS Integers, Sequences, FiniteSets, TLC

VARIABLES
    pc,                 \* position of the fit call
    mu, cov, weight, R, \* the incumbent mixture's arrays
    mindl,              \* the incumbent's message length
    iterations,         \* number of incumbents so far
    m,                  \* loop index of the current for-loop
    best_perturbations, \* the round's defaultdict, in insertion order
    returned,           \* the value the fit call returned, None before
    calls,              \* history: the operator calls of the current round
    roundDls,           \* history: message lengths returned in the round
    raisedAt,           \* history: the call that raised, None if none did
    message_length,     \* mixture_search: the incumbent's message length
    meta,               \* mixture_search: the incumbent's metadata
    num_components,     \* mixture_search: the argument of fit
    ll_dl,              \* expectation-maximization: the list of (ll, dl)
    threshold,          \* expectation-maximization: <<numerator, denominator>>
    max_em_iterations,  \* expectation-maximization: the iteration cap
    heap,               \* operators: the arrays in memory, by reference
    before,             \* operators: history, the heap when the call began
    merge_pair,         \* history: merge_component's D_kl, a_index, b_index
    covariance_type,    \* the object's covariance type, None before __init__
    em_calls,           \* operators: history, the arguments of each EM run
    impl                \* operators: the module called, "ka" or "search"

vars == <<pc, mu, cov, weight, R, mindl, iterations, m, best_perturbations,
          returned, calls, roundDls, raisedAt, message_length, meta,
          num_components, ll_dl, threshold, max_em_iterations, heap, before,
          em_calls, impl, merge_pair, covariance_type>>

\* What the search of mixture_ka.py does not use.
notKA == <<message_length, meta, num_components, ll_dl, threshold,
           max_em_iterations, heap, before, em_calls, impl, merge_pair,
           covariance_type>>

\* What the search of mixture_search.py does not use.
notMS == <<mindl, iterations, ll_dl, threshold, max_em_iterations, heap,
           before, em_calls, impl, merge_pair, covariance_type>>

\* What one run of expectation-maximization does not use.
notEM == <<mindl, m, calls, roundDls, message_length, num_components, heap,
           before, em_calls, impl, merge_pair, covariance_type>>

\* What one call of a perturbation operator does not use.
notOps == <<mu, cov, weight, R, mindl, iterations, m, best_perturbations,
            roundDls, impl, message_length, meta, num_components, ll_dl,
            threshold, max_em_iterations, covariance_type>>

\* The covariance type of an object constructed without naming one.
DefaultCovarianceType(impl_) == IF impl_ = "ka" THEN "free" ELSE "full"

\* Largest message length drawn for a candidate or for the initial mixture.
MaxML == 2

MLs == 0 .. MaxML

\* np.inf: greater than every message length.
inf == MaxML + 1

\* threshold=1e-5, as the fraction 1/100000.
DefaultThresholdDen == 100000

\* max_em_iterations=10000
DefaultMaxEmIterations == 10000

\* Python's None for a tuple-valued name: the empty tuple.
None == <<>>

\* The array `name` with `size` components (rows), as produced by call `src`.
Array(name, size, src) == [name |-> name, size |-> size, src |-> src]

\* A name of fit that is not bound yet.
Unset(name) == Array(name, 0, <<0, "unset", 0>>)

\* x[-1]
Last(s) == s[Len(s)]

(***************************************************************************)
(* The outcome of evaluating one candidate: the call raises, or its final  *)
(* expectation-maximization returns a message length.                      *)
(***************************************************************************)
Raise == [raised |-> TRUE, dl |-> 0]

Outcomes == {Raise} \cup [raised : {FALSE}, dl : MLs]

(***************************************************************************)
(* _initialize: a one-component mixture.                                   *)
(***************************************************************************)
_initialize ==
    <<Array("mu", 1, <<0, "init", 0>>),
      Array("cov", 1, <<0, "init", 0>>),
      Array("weight", 1, <<0, "init", 0>>)>>

(***************************************************************************)
(* The perturbation operators, as the search sees them: each returns the   *)
(* six-tuple (mu, cov, weight, responsibility, meta, dl) of its last       *)
(* expectation-maximization, which keeps the number of rows it is given.   *)
(***************************************************************************)
Candidate(size, src, em) ==
    <<Array("mu", size, src), Array("cov", size, src),
      Array("weight", size, src), Array("R", size, src),
      [src |-> src], em.dl>>

\* M > 1: one row is stacked under each array; M = 1: the two children.
split_component(weight_, index, it, em) ==
    LET M == weight_.size
    IN  Candidate(IF M > 1 THEN M + 1 ELSE 2, <<it, "split", index>>, em)

\* np.delete(.., index) on each array.
delete_component(weight_, index, it, em) ==
    Candidate(weight_.size - 1, <<it, "delete", index>>, em)

\* Mutant: the merged row is stored but the other row is not deleted.
merge_component_keeps_row(weight_, index, it, em) ==
    Candidate(weight_.size, <<it, "merge", index>>, em)

\* np.delete(.., del_index) on each array, the merged row stored at keep_index.
merge_component(weight_, index, it, em) ==
    Candidate(weight_.size - 1, <<it, "merge", index>>, em)

(***************************************************************************)
(* best_perturbations = defaultdict(lambda: [np.inf]), kept as the         *)
(* sequence of its (key, value) items in insertion order.                  *)
(***************************************************************************)
Keys(d) == {d[i][1] : i \in 1 .. Len(d)}

IndexOf(d, k) == CHOOSE i \in 1 .. Len(d) : d[i][1] = k

\* d[k] reads the value and, for a missing key, first inserts the default.
Touch(d, k) == IF k \in Keys(d) THEN d ELSE Append(d, <<k, <<inf>>>>)

GetItem(d, k) == Touch(d, k)[IndexOf(Touch(d, k), k)][2]

SetItem(d, k, v) ==
    IF k \in Keys(d) THEN [d EXCEPT ![IndexOf(d, k)] = <<k, v>>]
                     ELSE Append(d, <<k, v>>)

\* Mutant: a candidate of equal message length replaces the kept one.
BetterThanKept_or_equal(p_dl, kept_dl) == p_dl <= kept_dl

\* if p_dl < best_perturbations[k][-1]: best_perturbations[k] = [m] + list(r)
BetterThanKept(p_dl, kept_dl) == p_dl < kept_dl

KeepBest(d, k, index, r) ==
    IF BetterThanKept(r[6], Last(GetItem(d, k)))
        THEN SetItem(Touch(d, k), k, <<index>> \o r)
        ELSE Touch(d, k)

\* Mutant: the best split is taken, whatever the other families hold.
MinItem_first(d) == d[1]

\* min(best_perturbations.items(), key=lambda x: x[1][-1]): the first item
\* whose key is minimal.
MinItem(d) ==
    d[CHOOSE i \in 1 .. Len(d) :
        /\ \A j \in 1 .. Len(d) : Last(d[i][2]) <= Last(d[j][2])
        /\ \A j \in 1 .. (i - 1) : Last(d[j][2]) > Last(d[i][2])]

\* Mutant: a candidate of equal message length is accepted too.
Improves_or_equal(mindl_, b_dl) == mindl_ >= b_dl

\* if mindl > b_dl
Improves(mindl_, b_dl) == mindl_ > b_dl

\* for m in range(M): the loop ends after index M - 1.
LoopDone(index, M) == index + 1 >= M

\* Mutant: the delete and merge loops are run for a single component too.
DeleteAndMerge_always(M) == M >= 1

\* if M > 1: the delete and merge loops are run.
DeleteAndMerge(M) == M > 1

(***************************************************************************)
(* GaussianMixture._fit_kasarapu_allison                                   *)
(***************************************************************************)
Terminal == {"Converged", "Failed"}

\* The top of `while True`: M = weight.size, a fresh defaultdict, and the
\* first for-loop at m = 0.
BeginRound ==
    /\ pc' = "split"
    /\ m' = 0
    /\ best_perturbations' = <<>>
    /\ calls' = <<>>
    /\ roundDls' = {}

\* The statement after the body of the for-loop of family `op`.
Advance(op) ==
    LET M == weight.size
    IN  IF ~LoopDone(m, M)
            THEN /\ m' = m + 1
                 /\ pc' = op
            ELSE /\ m' = 0
                 /\ pc' = CASE op = "split" ->
                                IF DeleteAndMerge(M) THEN "delete" ELSE "select"
                            [] op = "delete" -> "merge"
                            [] op = "merge" -> "select"

\* Mutant: the failing candidate is skipped and the loop goes on.
Propagate_skips(op) ==
    /\ Advance(op)
    /\ UNCHANGED best_perturbations

\* An exception raised inside the loop body is not caught: it leaves fit.
Propagate(op) ==
    /\ pc' = "Failed"
    /\ UNCHANGED <<m, best_perturbations>>

\* One pass of the body of a for-loop: the call, then `Keep best ...`.
Body(op, r, out) ==
    /\ pc = op
    /\ calls' = Append(calls, <<op, m>>)
    /\ IF out.raised
           THEN /\ raisedAt' = <<op, m>>
                /\ Propagate(op)
                /\ UNCHANGED roundDls
           ELSE /\ best_perturbations' = KeepBest(best_perturbations, op, m, r)
                /\ roundDls' = roundDls \cup {r[6]}
                /\ Advance(op)
                /\ UNCHANGED raisedAt
    /\ UNCHANGED <<mu, cov, weight, R, mindl, iterations, returned>>
    /\ UNCHANGED notKA

\* The checks of the arguments, _initialize and the first _expectation.
Initialize ==
    /\ pc = "init"
    /\ \/ /\ pc' = "Failed"
          /\ raisedAt' = <<"init", 0>>
          /\ UNCHANGED <<mu, cov, weight, R, mindl, iterations, m,
                         best_perturbations, calls, roundDls>>
       \/ /\ mu' = _initialize[1]
          /\ cov' = _initialize[2]
          /\ weight' = _initialize[3]
          /\ R' = Array("R", 1, <<0, "init", 0>>)
          /\ mindl' \in MLs
          /\ iterations' = 1
          /\ BeginRound
          /\ UNCHANGED raisedAt
    /\ UNCHANGED returned
    /\ UNCHANGED notKA

SplitStep ==
    \E out \in Outcomes :
        Body("split", split_component(weight, m, iterations, out), out)

DeleteStep ==
    \E out \in Outcomes :
        Body("delete", delete_component(weight, m, iterations, out), out)

MergeStep ==
    \E out \in Outcomes :
        Body("merge", merge_component(weight, m, iterations, out), out)

\* Mutant: the loop has no break; the next round starts from the same
\* incumbent.
Break_missing ==
    /\ BeginRound
    /\ UNCHANGED <<mu, cov, weight, R, mindl, iterations, returned>>

\* else: break, and the return after the loop.
Break ==
    /\ pc' = "Converged"
    /\ returned' = <<mu, cov, weight>>
    /\ UNCHANGED <<mu, cov, weight, R, mindl, iterations, m,
                   best_perturbations, calls, roundDls>>

\* `Get best perturbation` to the end of the loop body.
Select ==
    /\ pc = "select"
    /\ LET bp == MinItem(best_perturbations)[2]
       IN  IF Len(bp) # 7
               THEN \* the unpacking of [np.inf] raises ValueError
                    /\ pc' = "Failed"
                    /\ raisedAt' = <<"select", 0>>
                    /\ UNCHANGED <<mu, cov, weight, R, mindl, iterations, m,
                                   best_perturbations, returned, calls,
                                   roundDls>>
               ELSE IF Improves(mindl, bp[7])
                   THEN /\ iterations' = iterations + 1
                        /\ mindl' = bp[7]
                        /\ mu' = bp[2]
                        /\ cov' = bp[3]
                        /\ weight' = bp[4]
                        /\ R' = bp[5]
                        /\ BeginRound
                        /\ UNCHANGED <<returned, raisedAt>>
                   ELSE /\ Break
                        /\ UNCHANGED raisedAt
    /\ UNCHANGED notKA

InitKA ==
    /\ pc = "init"
    /\ mu = Unset("mu")
    /\ cov = Unset("cov")
    /\ weight = Unset("weight")
    /\ R = Unset("R")
    /\ mindl = inf
    /\ iterations = 0
    /\ m = 0
    /\ best_perturbations = <<>>
    /\ returned = None
    /\ calls = <<>>
    /\ roundDls = {}
    /\ raisedAt = None
    /\ message_length = inf
    /\ meta = [src |-> <<0, "unset", 0>>]
    /\ num_components = 0
    /\ ll_dl = <<>>
    /\ threshold = <<1, DefaultThresholdDen>>
    /\ max_em_iterations = DefaultMaxEmIterations
    /\ heap = <<>>
    /\ before = <<>>
    /\ em_calls = <<>>
    /\ impl = "ka"
    /\ merge_pair = None
    /\ covariance_type = DefaultCovarianceType(impl)

NextKA ==
    \/ Initialize
    \/ SplitStep
    \/ DeleteStep
    \/ MergeStep
    \/ Select

SpecKA == InitKA /\ [][NextKA]_vars

\* The call is a single thread that runs until it returns or raises.
FairSpecKA == SpecKA /\ WF_vars(NextKA)

(***************************************************************************)
(* mixture_search.py, GaussianMixture.fit: the statements that run, from   *)
(* the second `_initialize` to the first `return` after the loop.          *)
(***************************************************************************)

\* Largest num_components passed to fit.
MaxComponents == 3

\* num_components=None, the default.
NoneArg == 0

NumComponents == {NoneArg} \cup (1 .. MaxComponents)

\* mixture_search.split_component: for M > 1 one row is stacked under each
\* array, for M = 1 the arrays are those of the two children.
split_component_search(weight_, index, em) ==
    LET M == weight_.size
    IN  Candidate(IF M > 1 THEN M + 1 ELSE 2, <<M, "split", index>>, em)

\* meta.update(message_length=b_ml)
MetaUpdate(meta_, ml) == [src |-> meta_.src, message_length |-> ml]

InitializeMS ==
    /\ pc = "init"
    /\ \/ /\ pc' = "Failed"
          /\ raisedAt' = <<"init", 0>>
          /\ UNCHANGED <<mu, cov, weight, R, message_length, meta>>
       \/ /\ mu' = Array("mu", 1, <<0, "init", 0>>)
          /\ cov' = Array("cov", 1, <<0, "init", 0>>)
          /\ weight' = Array("weight", 1, <<0, "init", 0>>)
          /\ R' = Array("R", 1, <<0, "init", 0>>)
          /\ \E ml \in MLs :
                /\ message_length' = ml
                /\ meta' = MetaUpdate([src |-> <<0, "init", 0>>], ml)
          /\ pc' = "loop"
          /\ UNCHANGED raisedAt
    /\ UNCHANGED <<m, best_perturbations, returned, calls, roundDls,
                   num_components>>
    /\ UNCHANGED notMS

\* return (mu, cov, weight, meta)
ReturnMS ==
    /\ pc' = "Returned"
    /\ returned' = <<mu, cov, weight, meta>>
    /\ UNCHANGED <<m, best_perturbations, calls, roundDls, raisedAt>>

\* K = weight.size; if K >= num_components: break.  With None, Python 3
\* raises TypeError and Python 2 orders None below every number.
LoopHead ==
    /\ pc = "loop"
    /\ IF num_components = NoneArg
           THEN \/ /\ pc' = "Failed"
                   /\ raisedAt' = <<"loop", 0>>
                   /\ UNCHANGED <<m, best_perturbations, returned, calls,
                                  roundDls>>
                \/ ReturnMS
           ELSE IF weight.size >= num_components
                   THEN ReturnMS
                   ELSE /\ BeginRound
                        /\ UNCHANGED <<returned, raisedAt>>
    /\ UNCHANGED <<mu, cov, weight, R, message_length, meta, num_components>>
    /\ UNCHANGED notMS

\* for k in range(K): p = split_component(..); `Keep best split component`
SplitStepMS ==
    /\ pc = "split"
    /\ calls' = Append(calls, <<"split", m>>)
    /\ \E out \in Outcomes :
          IF out.raised
             THEN /\ raisedAt' = <<"split", m>>
                  /\ pc' = "Failed"
                  /\ UNCHANGED <<m, best_perturbations, roundDls>>
             ELSE LET p == split_component_search(weight, m, out)
                  IN  /\ best_perturbations'
                            = KeepBest(best_perturbations, "split", m, p)
                      /\ roundDls' = roundDls \cup {p[6]}
                      /\ IF LoopDone(m, weight.size)
                             THEN m' = 0 /\ pc' = "select"
                             ELSE m' = m + 1 /\ pc' = "split"
                      /\ UNCHANGED raisedAt
    /\ UNCHANGED <<mu, cov, weight, R, message_length, meta, num_components,
                   returned>>
    /\ UNCHANGED notMS

\* bop, bp = min(..) to the end of the loop body: `Set the new state as the
\* best perturbation`, with no test.
SelectMS ==
    /\ pc = "select"
    /\ LET bp == MinItem(best_perturbations)[2]
       IN  IF Len(bp) # 7
               THEN /\ pc' = "Failed"
                    /\ raisedAt' = <<"select", 0>>
                    /\ UNCHANGED <<mu, cov, weight, R, message_length, meta>>
               ELSE /\ message_length' = bp[7]
                    /\ mu' = bp[2]
                    /\ cov' = bp[3]
                    /\ weight' = bp[4]
                    /\ R' = bp[5]
                    /\ meta' = MetaUpdate(bp[6], bp[7])
                    /\ pc' = "loop"
                    /\ UNCHANGED raisedAt
    /\ UNCHANGED <<m, best_perturbations, returned, calls, roundDls,
                   num_components>>
    /\ UNCHANGED notMS

InitMS ==
    /\ pc = "init"
    /\ mu = Unset("mu")
    /\ cov = Unset("cov")
    /\ weight = Unset("weight")
    /\ R = Unset("R")
    /\ mindl = inf
    /\ iterations = 0
    /\ m = 0
    /\ best_perturbations = <<>>
    /\ returned = None
    /\ calls = <<>>
    /\ roundDls = {}
    /\ raisedAt = None
    /\ message_length = inf
    /\ meta = [src |-> <<0, "unset", 0>>]
    /\ num_components \in NumComponents
    /\ ll_dl = <<>>
    /\ threshold = <<1, DefaultThresholdDen>>
    /\ max_em_iterations = DefaultMaxEmIterations
    /\ heap = <<>>
    /\ before = <<>>
    /\ em_calls = <<>>
    /\ impl = "search"
    /\ merge_pair = None
    /\ covariance_type = DefaultCovarianceType(impl)

NextMS ==
    \/ InitializeMS
    \/ LoopHead
    \/ SplitStepMS
    \/ SelectMS

SpecMS == InitMS /\ [][NextMS]_vars

(***************************************************************************)
(* _expectation_maximization (mixture_ka.py lines 470-557; the loop of     *)
(* mixture_search.py lines 1365-1456 has the same statements).  One run,   *)
(* on a mixture of any size, with the log-likelihood and the message       *)
(* length of each expectation step drawn from finite sets.  The result is  *)
(* handed to the caller's `Keep best`, as in the loops of fit.             *)
(***************************************************************************)

\* Log-likelihoods are drawn from -MaxLL .. 0.
MaxLL == 2

LLs == (0 - MaxLL) .. 0

\* Largest iteration cap passed to a run.
MaxEmIterations == 3

\* A second, coarse threshold 1/CoarseThresholdDen, so that unequal
\* log-likelihoods can converge.
CoarseThresholdDen == 2

Thresholds == {<<1, DefaultThresholdDen>>, <<1, CoarseThresholdDen>>}

Abs(x) == IF x < 0 THEN 0 - x ELSE x

\* np.isfinite(np.abs((ll - prev_ll)/prev_ll)): a division by zero gives
\* inf or nan.
RelativeDeltaFinite(ll, prev_ll) == prev_ll # 0

\* relative_delta_ll <= threshold, for a finite relative_delta_ll
RelativeDeltaLeq(ll, prev_ll, thr) ==
    Abs(ll - prev_ll) * thr[2] <= thr[1] * Abs(prev_ll)

\* Mutant: the loop stops only when both conditions hold.
StopTest_and(ll, prev_ll, thr, its, cap) ==
    RelativeDeltaLeq(ll, prev_ll, thr) /\ its >= cap

\* if relative_delta_ll <= threshold or iterations >= max_em_iterations
StopTest(ll, prev_ll, thr, its, cap) ==
    RelativeDeltaLeq(ll, prev_ll, thr) \/ its >= cap

\* Mutant: the flag is set only beyond the cap.
Warnflag_beyond(its, cap) == its > cap

\* warnflag=iterations >= max_em_iterations
Warnflag(its, cap) == its >= cap

\* The arrays an expectation or maximization step of the run returns.
EmArray(name, old, its) == Array(name, old.size, <<its, "em", 0>>)

\* The first _expectation and `iterations = 1`.
EMStart ==
    /\ pc = "em_start"
    /\ \/ /\ pc' = "Failed"
          /\ raisedAt' = <<"em_start", 0>>
          /\ UNCHANGED <<iterations, ll_dl>>
       \/ \E ll \in LLs, dl \in MLs :
             /\ ll_dl' = <<<<ll, dl>>>>
             /\ iterations' = 1
             /\ pc' = "em_loop"
             /\ UNCHANGED raisedAt
    /\ UNCHANGED <<mu, cov, weight, R, meta, returned, best_perturbations,
                   threshold, max_em_iterations>>
    /\ UNCHANGED notEM

\* One pass of `while True`: _maximization, _expectation, the test.
EMPair ==
    /\ pc = "em_loop"
    /\ \/ \* _maximization or _expectation raises
          /\ pc' = "Failed"
          /\ raisedAt' = <<"em_step", iterations>>
          /\ UNCHANGED <<mu, cov, weight, R, iterations, ll_dl>>
       \/ \E ll \in LLs, dl \in MLs :
             LET prev_ll == Last(ll_dl)[1]
             IN  /\ mu' = EmArray("mu", mu, iterations + 1)
                 /\ cov' = EmArray("cov", cov, iterations + 1)
                 /\ weight' = EmArray("weight", weight, iterations + 1)
                 /\ R' = EmArray("R", R, iterations + 1)
                 /\ ll_dl' = Append(ll_dl, <<ll, dl>>)
                 /\ iterations' = iterations + 1
                 /\ IF ~RelativeDeltaFinite(ll, prev_ll)
                        THEN \* assert np.isfinite(relative_delta_ll)
                             /\ pc' = "Failed"
                             /\ raisedAt' = <<"em_assert", iterations + 1>>
                        ELSE /\ pc' = IF StopTest(ll, prev_ll, threshold,
                                                  iterations + 1,
                                                  max_em_iterations)
                                          THEN "em_break" ELSE "em_loop"
                             /\ UNCHANGED raisedAt
    /\ UNCHANGED <<meta, returned, best_perturbations, threshold,
                   max_em_iterations>>
    /\ UNCHANGED notEM

\* meta = dict(warnflag=..); the warning; return (.., meta, dl)
EMReturn ==
    /\ pc = "em_break"
    /\ meta' = [warnflag |-> Warnflag(iterations, max_em_iterations),
                log_likelihood |-> Last(ll_dl)[1]]
    /\ returned' = <<mu, cov, weight, R, meta', Last(ll_dl)[2]>>
    /\ pc' = "em_returned"
    /\ UNCHANGED <<mu, cov, weight, R, iterations, ll_dl, raisedAt,
                   best_perturbations, threshold, max_em_iterations>>
    /\ UNCHANGED notEM

\* The caller's `if p_dl < best_perturbations[..][-1]: ..` on the result.
EMKeep ==
    /\ pc = "em_returned"
    /\ best_perturbations'
          = KeepBest(best_perturbations, "split", 1, returned)
    /\ pc' = "em_kept"
    /\ UNCHANGED <<mu, cov, weight, R, iterations, ll_dl, raisedAt, meta,
                   returned, threshold, max_em_iterations>>
    /\ UNCHANGED notEM

\* A candidate the caller kept before this run (that of component 0), of
\* message length dl.
KeptBefore(dl) ==
    <<0, Array("mu", 2, <<1, "em", 0>>), Array("cov", 2, <<1, "em", 0>>),
      Array("weight", 2, <<1, "em", 0>>), Array("R", 2, <<1, "em", 0>>),
      [warnflag |-> FALSE, log_likelihood |-> 0], dl>>

InitEM ==
    /\ pc = "em_start"
    /\ \E size \in {1, 2} :
          /\ mu = Array("mu", size, <<0, "arg", 0>>)
          /\ cov = Array("cov", size, <<0, "arg", 0>>)
          /\ weight = Array("weight", size, <<0, "arg", 0>>)
          /\ R = Array("R", size, <<0, "arg", 0>>)
    /\ threshold \in Thresholds
    /\ max_em_iterations \in 1 .. MaxEmIterations
    /\ heap = <<>>
    /\ before = <<>>
    /\ em_calls = <<>>
    /\ impl = "ka"
    /\ merge_pair = None
    /\ covariance_type = DefaultCovarianceType(impl)
    /\ best_perturbations \in {<<>>, <<<<"split", KeptBefore(1)>>>>}
    /\ iterations = 0
    /\ ll_dl = <<>>
    /\ meta = [warnflag |-> FALSE, log_likelihood |-> 0]
    /\ returned = None
    /\ raisedAt = None
    /\ mindl = inf
    /\ m = 0
    /\ calls = <<>>
    /\ roundDls = {}
    /\ message_length = inf
    /\ num_components = 0

NextEM ==
    \/ EMStart
    \/ EMPair
    \/ EMReturn
    \/ EMKeep

SpecEM == InitEM /\ [][NextEM]_vars

(***************************************************************************)
(* The perturbation operators of mixture_ka.py on arrays held by           *)
(* reference.                                                              *)
(*                                                                         *)
(* Weights and responsibilities are floating-point numbers in the code.    *)
(* Here they are exact fractions <<numerator, denominator>> in lowest      *)
(* terms with denominator >= 0; <<1, 0>> is inf, <<-1, 0>> is -inf and     *)
(* <<0, 0>> is nan, with the IEEE rules for them.  The operators only move *)
(* rows of mu and cov around; such a row is <<origin, name, position>>.    *)
(***************************************************************************)
\* Largest number of components of a mixture handed to an operator.
MaxOpsK == 2

\* Weights and responsibilities are drawn as multiples of 1/Grain.
Grain == 2

\* N, the number of observations.
NObs == 2

\* eps = (7./3 - 4./3 - 1) is 2^-52; here 1/EpsDen, likewise below every
\* positive number that is drawn, and within the range of TLC's integers.
EpsDen == 1048576

RECURSIVE GCD(_, _)
GCD(a, b) == IF b = 0 THEN a ELSE GCD(b, a % b)

RNorm(n, d) ==
    LET g == GCD(Abs(n), Abs(d))
        s == IF d < 0 THEN 0 - 1 ELSE 1
    IN  IF g = 0 THEN <<0, 0>> ELSE <<(s * n) \div g, (s * d) \div g>>

Zero == <<0, 1>>

One == <<1, 1>>

np_nan == <<0, 0>>

np_inf == <<1, 0>>

eps == <<1, EpsDen>>

IsNaN(a) == a = np_nan

IsInf(a) == a[2] = 0 /\ a[1] # 0

RAdd(a, b) ==
    IF IsNaN(a) \/ IsNaN(b) THEN np_nan
    ELSE IF IsInf(a) /\ IsInf(b) THEN (IF a = b THEN a ELSE np_nan)
    ELSE IF IsInf(a) THEN a
    ELSE IF IsInf(b) THEN b
    ELSE LET L == (a[2] \div GCD(a[2], b[2])) * b[2]
         IN  RNorm(a[1] * (L \div a[2]) + b[1] * (L \div b[2]), L)

RSub(a, b) == RAdd(a, <<0 - b[1], b[2]>>)

\* Mutant: the first factor is not scaled.
RMul_first(a, b) == a

\* The product, with the common factors taken out before multiplying.
RMul(a, b) ==
    IF a[2] = 0 \/ b[2] = 0 THEN RNorm(a[1] * b[1], a[2] * b[2])
    ELSE LET g1 == GCD(Abs(a[1]), b[2])
             g2 == GCD(Abs(b[1]), a[2])
         IN  RNorm((a[1] \div g1) * (b[1] \div g2),
                   (a[2] \div g2) * (b[2] \div g1))

RDiv(a, b) == RMul(a, RNorm(b[2], b[1]))

RLt(a, b) ==
    IF IsNaN(a) \/ IsNaN(b) THEN FALSE
    ELSE IF IsInf(a) /\ IsInf(b) THEN a[1] < b[1]
    ELSE LET g == GCD(a[2], b[2])
         IN  a[1] * (b[2] \div g) < b[1] * (a[2] \div g)

\* np.clip(x, lo, hi) on one element
Clip(x, lo, hi) ==
    IF IsNaN(x) THEN x
    ELSE IF RLt(x, lo) THEN lo
    ELSE IF RLt(hi, x) THEN hi
    ELSE x

RECURSIVE IntSum(_)
IntSum(s) == IF s = <<>> THEN 0 ELSE s[1] + IntSum(Tail(s))

\* K multiples of 1/Grain, each at least lo/Grain, that sum to 1.
Simplex(K, lo) ==
    {[k \in 1 .. K |-> RNorm(c[k], Grain)] :
        c \in {d \in [1 .. K -> lo .. Grain] : IntSum(d) = Grain}}

\* Weight vectors of K components: positive, summing to 1.
WeightVectors(K) == Simplex(K, 1)

\* Responsibility matrices of K components: K rows of NObs entries, every
\* observation's column in [0, 1] and summing to 1.
Matrices(K) ==
    {[k \in 1 .. K |-> [n \in 1 .. NObs |-> col[n][k]]] :
        col \in [1 .. NObs -> Simplex(K, 0)]}

\* The responsibilities a run of mixture_ka.py returns: responsibility_matrix
\* clips every entry to eps or more before it normalises them.
PositiveMatrices(K) ==
    {[k \in 1 .. K |-> [n \in 1 .. NObs |-> col[n][k]]] :
        col \in [1 .. NObs -> Simplex(K, 1)]}

\* The K rows of the array `name` of means or covariances made by `origin`.
Rows(origin, name, K) == [k \in 1 .. K |-> <<origin, name, k - 1>>]

\* The position of observation n's column among the columns of Simplex.
RECURSIVE ColumnCode(_, _, _)
ColumnCode(R_, n, k) ==
    IF k = 0 THEN 0
    ELSE R_[k][n][1] * (Grain \div R_[k][n][2])
         + (Grain + 1) * ColumnCode(R_, n, k - 1)

\* The responsibility matrices an operator is called with.  No operator
\* depends on the order of the observations, so one order stands for all.
InputMatrices(K) ==
    {R_ \in Matrices(K) :
        \A n \in 1 .. NObs - 1 : ColumnCode(R_, n, K) <= ColumnCode(R_, n + 1, K)}

RECURSIVE RSum(_)
RSum(s) == IF s = <<>> THEN Zero ELSE RAdd(s[1], RSum(Tail(s)))

IsFinite(a) == a[2] # 0

(***************************************************************************)
(* _maximization, as far as weights and raised errors go.                  *)
(***************************************************************************)
\* effective_membership = np.sum(responsibility, axis=1)
effective_membership(R_) == [k \in 1 .. Len(R_) |-> RSum(R_[k])]

\* new_weight = (effective_membership + 0.5)/(N + M/2.0)
maximization_weight(R_) ==
    [k \in 1 .. Len(R_) |->
        RDiv(RAdd(effective_membership(R_)[k], <<1, 2>>),
             RNorm(2 * NObs + Len(R_), 2))]

\* w_effective_membership = np.sum(parent_responsibility * responsibility, ..)
w_effective_membership(R_, parent_) ==
    [k \in 1 .. Len(R_) |->
        RSum([n \in 1 .. NObs |-> RMul(parent_[n], R_[k][n])])]

\* The first _maximization of a run cannot go through: a mean is 0/0 or not
\* finite (mixture_search asserts it is finite; in mixture_ka it makes the
\* next responsibility matrix fail its own assertion), or, in mixture_ka, a
\* covariance is divided by w_effective_membership - 1 = 0.
MaximizationRaises(impl_, R_, parent_) ==
    \E k \in 1 .. Len(R_) :
        LET n_k == w_effective_membership(R_, parent_)[k]
        IN  \/ ~IsFinite(n_k)
            \/ ~IsFinite(effective_membership(R_)[k])
            \/ n_k = Zero
            \/ impl_ = "ka" /\ n_k = One

(***************************************************************************)
(* Memory.  heap[ref] is the array that reference ref refers to; a Python  *)
(* name holds a reference.  The caller's four arrays are the first four.   *)
(***************************************************************************)
Args == [mu |-> 1, cov |-> 2, weight |-> 3, responsibility |-> 4]

ArgRefs == {Args.mu, Args.cov, Args.weight, Args.responsibility}

\* A new array; its reference is Len of the new heap.
Alloc(h, a) == Append(h, a)

\* a[i] = v, stored into the array that `ref` refers to.
Store(h, ref, i, v) == [h EXCEPT ![ref][i + 1] = v]

\* np.delete(a, i, axis=0): a new array.
np_delete(a, i) == SubSeq(a, 1, i) \o SubSeq(a, i + 2, Len(a))

\* Mutant: the new row is put first.
np_stack_front(a, row) == <<row>> \o a

\* np.vstack([a, [row]]), np.hstack([a, [x]]): a new array.
np_stack(a, row) == Append(a, row)

\* The four references following reference `ref`.
Four(ref) ==
    [mu |-> ref + 1, cov |-> ref + 2, weight |-> ref + 3,
     responsibility |-> ref + 4]

\* The argument arrays of one _expectation_maximization call.
EmCall(h, refs, parent_responsibility) ==
    [mu |-> h[refs.mu], cov |-> h[refs.cov], weight |-> h[refs.weight],
     responsibility |-> h[refs.responsibility],
     parent_responsibility |-> parent_responsibility]

\* parent_responsibility=1, the default of _maximization
NoParent == [n \in 1 .. NObs |-> One]

\* _expectation_maximization on the arrays `refs`: _maximization and
\* _expectation build new arrays of the same number of rows.  The weights
\* returned are those of the last _maximization: when the run stops after
\* its first pair (`single`) they come from the responsibility matrix the
\* caller supplied, otherwise from one that _expectation returned.
em_arrays(h, refs, single) ==
    LET K == Len(h[refs.weight])
    IN  h \o <<Rows("em", "mu", K), Rows("em", "cov", K),
               IF single THEN maximization_weight(h[refs.responsibility])
                         ELSE Rows("em", "weight", K),
               Rows("em", "responsibility", K)>>

(***************************************************************************)
(* The three operators.  Each returns the heap it leaves, the arguments of *)
(* the expectation-maximization runs it started, and the references of the *)
(* four arrays it returns; `fail` names the step that raises, if any.      *)
(***************************************************************************)
Failures == {"none", "child_mu", "child_em", "em"}

OpResult(failed, h, runs, result, single) ==
    [failed |-> failed, heap |-> h, em_calls |-> runs, result |-> result,
     single |-> single]

\* Mutant: the runs before the last one are not counted.
Spliced_alone(h, refs, earlier, parent_, fail, single, impl_) ==
    IF fail = "em" \/ MaximizationRaises(impl_, h[refs.responsibility], parent_)
        THEN OpResult(TRUE, h, <<EmCall(h, refs, parent_)>>, Args, FALSE)
        ELSE OpResult(FALSE, em_arrays(h, refs, single),
                      <<EmCall(h, refs, parent_)>>, Four(Len(h)), single)

\* The operator's last step: _expectation_maximization on the arrays `refs`
\* of heap h, after the runs `earlier`; its result is what the call returns.
Spliced(h, refs, earlier, parent_, fail, single, impl_) ==
    IF fail = "em" \/ MaximizationRaises(impl_, h[refs.responsibility], parent_)
        THEN OpResult(TRUE, h, Append(earlier, EmCall(h, refs, parent_)),
                      Args, FALSE)
        ELSE OpResult(FALSE, em_arrays(h, refs, single),
                      Append(earlier, EmCall(h, refs, parent_)),
                      Four(Len(h)), single)

\* x = np.vstack([x, [row]]) or np.hstack([x, [row]]): x now names a new array
Stacked(h, ref, row) == Alloc(h, np_stack(h[ref], row))

\* np.delete(x, i, axis=0): a new array
Deleted(h, ref, i) == Alloc(h, np_delete(h[ref], i))

\* mixture_ka.  child_weight, child_responsibility: what the children's run
\* returns.
split_component_body(h, index, child_weight, child_responsibility, fail, single) ==
    LET M == Len(h[Args.weight])
        \* child_mu, child_cov, child_weight, child_responsibility
        seed == Four(Len(h))
        h1 == h \o <<Rows("seed", "mu", 2), Rows("seed", "cov", 2),
                     Rows("seed", "weight", 2),
                     Rows("seed", "responsibility", 2)>>
        parent_weight == h[Args.weight][index + 1]
        parent_responsibility == [n \in 1 .. NObs |->
            Clip(h[Args.responsibility][index + 1][n], eps, One)]
        h2 == Alloc(h1, parent_responsibility)
        child_call == EmCall(h2, seed, parent_responsibility)
        \* the children after their expectation-maximization
        child == Four(Len(h) + 5)
        h3 == h2 \o <<Rows("child", "mu", 2), Rows("child", "cov", 2),
                      child_weight, child_responsibility>>
        \* weight = np.hstack(..); weight[index] = ..
        weight_ == Len(h) + 10
        h4 == Stacked(h3, Args.weight, RMul(parent_weight, child_weight[2]))
        h5 == Store(h4, weight_, index, RMul(parent_weight, child_weight[1]))
        \* responsibility = np.vstack(..); responsibility[index] = ..
        responsibility_ == Len(h) + 11
        h6 == Stacked(h5, Args.responsibility, [n \in 1 .. NObs |->
                  RMul(parent_responsibility[n], child_responsibility[2][n])])
        h7 == Store(h6, responsibility_, index, [n \in 1 .. NObs |->
                  RMul(parent_responsibility[n], child_responsibility[1][n])])
        \* mu = np.vstack(..); mu[index] = ..
        mu_ == Len(h) + 12
        h8 == Stacked(h7, Args.mu, <<"child", "mu", 1>>)
        h9 == Store(h8, mu_, index, <<"child", "mu", 0>>)
        \* cov = np.vstack(..); cov[index] = ..
        cov_ == Len(h) + 13
        h10 == Stacked(h9, Args.cov, <<"child", "cov", 1>>)
        h11 == Store(h10, cov_, index, <<"child", "cov", 0>>)
        spliced == [mu |-> mu_, cov |-> cov_, weight |-> weight_,
                    responsibility |-> responsibility_]
    IN  IF fail = "child_mu"
            THEN OpResult(TRUE, Alloc(h, Rows("seed", "mu", 2)), <<>>, Args,
                          FALSE)
        ELSE IF fail = "child_em"
            THEN OpResult(TRUE, h2, <<child_call>>, Args, FALSE)
        ELSE IF M = 1
            THEN OpResult(FALSE, h3, <<child_call>>, child, FALSE)
        ELSE Spliced(h11, spliced, <<child_call>>, NoParent, fail, single,
                     "ka")

\* mixture_ka
delete_component_body(h, index, fail, single) ==
    LET M == Len(h[Args.weight])
        parent_weight == h[Args.weight][index + 1]
        parent_responsibility == h[Args.responsibility][index + 1]
        \* new_weight = np.delete(weight, index) / (1 - parent_weight)
        new_weight == Len(h) + 1
        h1 == Alloc(h, [k \in 1 .. M - 1 |->
                  RDiv(np_delete(h[Args.weight], index)[k],
                       RSub(One, parent_weight))])
        \* np.delete(responsibility, index, axis=0)
        \*     / (1 - parent_responsibility)
        quotient == [k \in 1 .. M - 1 |-> [n \in 1 .. NObs |->
                  RDiv(np_delete(h[Args.responsibility], index)[k][n],
                       RSub(One, parent_responsibility[n]))]]
        h2 == Alloc(h1, quotient)
        \* new_responsibility = np.clip(new_responsibility, 0, 1)
        new_responsibility == Len(h) + 3
        h3 == Alloc(h2, [k \in 1 .. M - 1 |-> [n \in 1 .. NObs |->
                  Clip(quotient[k][n], Zero, One)]])
        new_mu == Len(h) + 4
        h4 == Deleted(h3, Args.mu, index)
        new_cov == Len(h) + 5
        h5 == Deleted(h4, Args.cov, index)
        perturbed == [mu |-> new_mu, cov |-> new_cov, weight |-> new_weight,
                      responsibility |-> new_responsibility]
    IN  Spliced(h5, perturbed, <<>>, NoParent, fail, single, "ka")

\* mixture_search.  assign[n]: np.argmin(distance, axis=0) for observation n.
split_component_search_body(h, index, assign, fail, single) ==
    LET M == Len(h[Args.weight])
        \* child_responsibility = np.zeros((2, N)); child_responsibility[..] = 1.0
        child_responsibility == [k \in 1 .. 2 |-> [n \in 1 .. NObs |->
            IF assign[n] = k - 1 THEN One ELSE Zero]]
        child_effective_membership == effective_membership(child_responsibility)
        child_weight == [k \in 1 .. 2 |->
            RDiv(child_effective_membership[k],
                 RSum(child_effective_membership))]
        \* child_mu, child_cov, child_weight, child_responsibility
        seed == Four(Len(h))
        h1 == h \o <<Rows("seed", "mu", 2), Rows("seed", "cov", 2),
                     child_weight, child_responsibility>>
        parent_weight == h[Args.weight][index + 1]
        parent_responsibility == h[Args.responsibility][index + 1]
        \* weight = np.hstack(..); weight[index] = ..
        weight_ == Len(h) + 5
        h2 == Stacked(h1, Args.weight, RMul(parent_weight, child_weight[2]))
        h3 == Store(h2, weight_, index, RMul(parent_weight, child_weight[1]))
        \* responsibility = np.vstack(..); responsibility[index] = ..
        responsibility_ == Len(h) + 6
        h4 == Stacked(h3, Args.responsibility, [n \in 1 .. NObs |->
                  RMul(parent_responsibility[n], child_responsibility[2][n])])
        h5 == Store(h4, responsibility_, index, [n \in 1 .. NObs |->
                  RMul(parent_responsibility[n], child_responsibility[1][n])])
        \* mu = np.vstack(..); mu[index] = ..
        mu_ == Len(h) + 7
        h6 == Stacked(h5, Args.mu, <<"seed", "mu", 1>>)
        h7 == Store(h6, mu_, index, <<"seed", "mu", 0>>)
        \* cov = np.vstack(..); cov[index] = ..
        cov_ == Len(h) + 8
        h8 == Stacked(h7, Args.cov, <<"seed", "cov", 1>>)
        h9 == Store(h8, cov_, index, <<"seed", "cov", 0>>)
        spliced == [mu |-> mu_, cov |-> cov_, weight |-> weight_,
                    responsibility |-> responsibility_]
    IN  IF fail = "child_mu"
            THEN OpResult(TRUE, Alloc(h, Rows("seed", "mu", 2)), <<>>, Args,
                          FALSE)
        ELSE IF M > 1
            THEN Spliced(h9, spliced, <<>>, NoParent, fail, single, "search")
        ELSE Spliced(h1, seed, <<>>, parent_responsibility, fail, single,
                     "search")

\* mixture_search
delete_component_search_body(h, index, fail, single) ==
    LET M == Len(h[Args.weight])
        parent_weight == h[Args.weight][index + 1]
        parent_responsibility == h[Args.responsibility][index + 1]
        \* new_weight = np.clip(np.delete(weight, ..)/(1-parent_weight), 0, 1)
        new_weight == Len(h) + 1
        clipped_weight == [k \in 1 .. M - 1 |->
            Clip(RDiv(np_delete(h[Args.weight], index)[k],
                      RSub(One, parent_weight)), Zero, One)]
        h1 == Alloc(h, clipped_weight)
        \* new_responsibility = np.clip(np.delete(responsibility, ..)
        \*     / (1 - parent_responsibility), 0, 1)
        new_responsibility == Len(h) + 2
        clipped == [k \in 1 .. M - 1 |-> [n \in 1 .. NObs |->
            Clip(RDiv(np_delete(h[Args.responsibility], index)[k][n],
                      RSub(One, parent_responsibility[n])), Zero, One)]]
        h2 == Alloc(h1, clipped)
        \* new_responsibility[~np.isfinite(new_responsibility)] = 0.0
        h3 == [h2 EXCEPT ![new_responsibility] =
                  [k \in 1 .. M - 1 |-> [n \in 1 .. NObs |->
                      IF IsFinite(clipped[k][n]) THEN clipped[k][n]
                                                 ELSE Zero]]]
        new_mu == Len(h) + 3
        h4 == Deleted(h3, Args.mu, index)
        new_cov == Len(h) + 4
        h5 == Deleted(h4, Args.cov, index)
        perturbed == [mu |-> new_mu, cov |-> new_cov, weight |-> new_weight,
                      responsibility |-> new_responsibility]
    IN  \* assert np.all(np.isfinite(new_weight))
        IF \E k \in 1 .. M - 1 : ~IsFinite(clipped_weight[k])
            THEN OpResult(TRUE, h3, <<>>, Args, FALSE)
            ELSE Spliced(h5, perturbed, <<>>, NoParent, fail, single,
                         "search")

\* Divergences the Kullback-Leibler function may return for a pair.
KLValues == {Zero, One, np_inf, np_nan}

\* D_kl = np.inf * np.ones(weight.size), filled for every m != index.
D_kls(K, index) == {d \in [1 .. K -> KLValues] : d[index + 1] = np_inf}

\* np.nanargmin: nan counts as inf, the first position of the minimum.
nanargmin(D) ==
    LET clean == [i \in 1 .. Len(D) |-> IF IsNaN(D[i]) THEN np_inf ELSE D[i]]
    IN  (CHOOSE i \in 1 .. Len(D) :
            /\ \A j \in 1 .. Len(D) : ~RLt(clean[j], clean[i])
            /\ \A j \in 1 .. i - 1 : RLt(clean[i], clean[j])) - 1

Max(a, b) == IF a >= b THEN a ELSE b

Min(a, b) == IF a <= b THEN a ELSE b

\* Mutant: the merged rows are stored into the arrays that were passed in.
merge_component_in_place(h, index, D_kl, fail, single, impl_) ==
    LET b_index == nanargmin(D_kl)
        keep_index == Min(index, b_index)
        weight_k == RAdd(h[Args.weight][index + 1],
                         h[Args.weight][b_index + 1])
        responsibility_k == [n \in 1 .. NObs |->
            RAdd(h[Args.responsibility][index + 1][n],
                 h[Args.responsibility][b_index + 1][n])]
        h1 == Store(h, Args.mu, keep_index, <<"merged", "mu", keep_index>>)
        h2 == Store(h1, Args.cov, keep_index, <<"merged", "cov", keep_index>>)
        h3 == Store(h2, Args.weight, keep_index, weight_k)
        h4 == Store(h3, Args.responsibility, keep_index, responsibility_k)
    IN  Spliced(h4, Args, <<>>, NoParent, fail, single, impl_)

\* mixture_ka; mixture_search has the same statements (lines 1710-1749).
merge_component_body(h, index, D_kl, fail, single, impl_) ==
    LET a_index == index
        b_index == nanargmin(D_kl)
        \* np.sum(weight[[a_index, b_index]]) and so on: new values
        weight_k == RAdd(h[Args.weight][a_index + 1],
                         h[Args.weight][b_index + 1])
        responsibility_k == [n \in 1 .. NObs |->
            RAdd(h[Args.responsibility][a_index + 1][n],
                 h[Args.responsibility][b_index + 1][n])]
        del_index == Max(a_index, b_index)
        keep_index == Min(a_index, b_index)
        mu_k == <<"merged", "mu", keep_index>>
        cov_k == <<"merged", "cov", keep_index>>
        new_mu == Len(h) + 1
        h1 == Deleted(h, Args.mu, del_index)
        new_cov == Len(h) + 2
        h2 == Deleted(h1, Args.cov, del_index)
        new_weight == Len(h) + 3
        h3 == Deleted(h2, Args.weight, del_index)
        new_responsibility == Len(h) + 4
        h4 == Deleted(h3, Args.responsibility, del_index)
        h5 == Store(h4, new_mu, keep_index, mu_k)
        h6 == Store(h5, new_cov, keep_index, cov_k)
        h7 == Store(h6, new_weight, keep_index, weight_k)
        h8 == Store(h7, new_responsibility, keep_index, responsibility_k)
        perturbed == [mu |-> new_mu, cov |-> new_cov, weight |-> new_weight,
                      responsibility |-> new_responsibility]
    IN  Spliced(h8, perturbed, <<>>, NoParent, fail, single, impl_)

(***************************************************************************)
(* One call of an operator on the caller's arrays.                         *)
(***************************************************************************)
\* The call ends: it raises, or returns the six-tuple of its last
\* expectation-maximization, whose message length is that of run `run`.
OpReturn(op, index, r) ==
    /\ heap' = r.heap
    /\ em_calls' = r.em_calls
    /\ calls' = <<<<op, index>>>>
    /\ IF r.failed
           THEN /\ pc' = "ops_failed"
                /\ raisedAt' = <<op, index>>
                /\ returned' = None
           ELSE /\ pc' = "ops_done"
                /\ returned' = <<r.heap[r.result.mu], r.heap[r.result.cov],
                                 r.heap[r.result.weight],
                                 r.heap[r.result.responsibility],
                                 [src |-> <<0, op, index>>,
                                  single |-> r.single],
                                 [run |-> Len(r.em_calls)]>>
                /\ UNCHANGED raisedAt
    /\ UNCHANGED before
    /\ UNCHANGED notOps

\* What the children's run returns, when the call gets that far.
ChildDraw(fail, S) ==
    IF fail \in {"child_mu", "child_em"} THEN {CHOOSE x \in S : TRUE} ELSE S

OpSplit ==
    /\ pc = "ops_ready"
    /\ \E index \in 0 .. Len(heap[Args.weight]) - 1, fail \in Failures,
          single \in BOOLEAN :
          /\ single => fail = "none"
          /\ IF impl = "ka"
                 THEN \* for M = 1 the children's run is the last one
                      /\ fail = "em" \/ single => Len(heap[Args.weight]) > 1
                      /\ \E child_weight \in ChildDraw(fail, WeightVectors(2)),
                            child_responsibility
                                \in ChildDraw(fail, PositiveMatrices(2)) :
                            OpReturn("split", index,
                                split_component_body(heap, index,
                                    child_weight, child_responsibility,
                                    fail, single))
                 ELSE /\ fail # "child_em"
                      /\ \E assign \in ChildDraw(fail, [1 .. NObs -> {0, 1}]) :
                            OpReturn("split", index,
                                split_component_search_body(heap, index,
                                    assign, fail, single))
    /\ merge_pair' = None

\* The search calls delete_component and merge_component for M > 1 only.
OpDelete ==
    /\ pc = "ops_ready"
    /\ DeleteAndMerge(Len(heap[Args.weight]))
    /\ \E index \in 0 .. Len(heap[Args.weight]) - 1, fail \in {"none", "em"},
          single \in BOOLEAN :
          /\ single => fail = "none"
          /\ OpReturn("delete", index,
                 IF impl = "ka"
                     THEN delete_component_body(heap, index, fail, single)
                     ELSE delete_component_search_body(heap, index, fail,
                                                       single))
    /\ merge_pair' = None

OpMerge ==
    /\ pc = "ops_ready"
    /\ DeleteAndMerge(Len(heap[Args.weight]))
    /\ \E index \in 0 .. Len(heap[Args.weight]) - 1, fail \in {"none", "em"},
          single \in BOOLEAN :
          /\ single => fail = "none"
          /\ \E D_kl \in D_kls(Len(heap[Args.weight]), index) :
                /\ OpReturn("merge", index,
                       merge_component_body(heap, index, D_kl, fail, single,
                                            impl))
                /\ merge_pair' = [D_kl |-> D_kl, a_index |-> index,
                                  b_index |-> nanargmin(D_kl)]

\* The search goes on to its next candidate with the same four names; the
\* arrays local to the finished call are gone.
NextCandidate ==
    /\ pc = "ops_done"
    /\ pc' = "ops_ready"
    /\ heap' = SubSeq(heap, 1, 4)
    /\ em_calls' = <<>>
    /\ calls' = <<>>
    /\ returned' = None
    /\ merge_pair' = None
    /\ UNCHANGED <<before, raisedAt>>
    /\ UNCHANGED notOps

InitOps ==
    /\ pc = "ops_ready"
    /\ impl \in {"ka", "search"}
    /\ \E K \in 1 .. MaxOpsK :
          \E weight_ \in WeightVectors(K), responsibility \in InputMatrices(K) :
              heap = <<Rows("in", "mu", K), Rows("in", "cov", K), weight_,
                       responsibility>>
    /\ before = heap
    /\ em_calls = <<>>
    /\ merge_pair = None
    /\ covariance_type = DefaultCovarianceType(impl)
    /\ mu = Unset("mu")
    /\ cov = Unset("cov")
    /\ weight = Unset("weight")
    /\ R = Unset("R")
    /\ mindl = inf
    /\ iterations = 0
    /\ m = 0
    /\ best_perturbations = <<>>
    /\ returned = None
    /\ calls = <<>>
    /\ roundDls = {}
    /\ raisedAt = None
    /\ message_length = inf
    /\ meta = [src |-> <<0, "unset", 0>>]
    /\ num_components = 0
    /\ ll_dl = <<>>
    /\ threshold = <<1, DefaultThresholdDen>>
    /\ max_em_iterations = DefaultMaxEmIterations

NextOps ==
    \/ OpSplit
    \/ OpDelete
    \/ OpMerge
    \/ NextCandidate

SpecOps == InitOps /\ [][NextOps]_vars

(***************************************************************************)
(* responsibility_matrix, on its own.  heap holds the two arguments that   *)
(* matter, the weights and where each observation lies under each          *)
(* component's density; returned is the matrix the call returns.           *)
(***************************************************************************)
\* 10e8, the largest denominator; here DenMax, likewise above every
\* density that is not drawn as "big".
DenMax == 16

\* Where y[n] lies under component k: so far from the mean that np.exp
\* underflows, an ordinary place, or a density above any denominator.
Levels == {"far", "near", "big"}

\* det(cov)**(-0.5) * np.exp(-0.5 * ...), without the scalar
Density(level) ==
    CASE level = "far" -> Zero
      [] level = "near" -> <<1, 2>>
      [] level = "big" -> <<2 * DenMax, 1>>

\* One observation's column of mixture_ka.responsibility_matrix, lines
\* 226-249, before the assertion and without the last division.
responsibility_column_unnormalised(weight_, level) ==
    LET K == Len(weight_)
        numerator == [k \in 1 .. K |-> RMul(weight_[k], Density(level[k]))]
        denominator == Clip(RSum(numerator), eps, <<DenMax, 1>>)
    IN  [k \in 1 .. K |-> Clip(RDiv(numerator[k], denominator), eps, One)]

\* One observation's column of mixture_ka.responsibility_matrix.
responsibility_column(weight_, level) ==
    LET K == Len(weight_)
        numerator == [k \in 1 .. K |-> RMul(weight_[k], Density(level[k]))]
        denominator == Clip(RSum(numerator), eps, <<DenMax, 1>>)
        responsibility == [k \in 1 .. K |->
                              Clip(RDiv(numerator[k], denominator), eps, One)]
        \* responsibility /= np.sum(responsibility, axis=0)
        total == RSum(responsibility)
    IN  [k \in 1 .. K |-> RDiv(responsibility[k], total)]

\* One observation's column of mixture_search.responsibility_matrix, lines
\* 826-840.  It works with logarithms, which do not underflow: an
\* observation far from every mean has a finite weighted_log_prob under
\* each, and only the exponential of the difference to log_likelihood
\* underflows, to 0.
responsibility_column_search(weight_, level) ==
    LET K == Len(weight_)
        \* np.exp(weighted_log_prob), up to one factor for the observation
        weighted_prob == [k \in 1 .. K |->
            RMul(weight_[k],
                 IF \A j \in 1 .. K : level[j] = "far"
                     THEN One ELSE Density(level[k]))]
        likelihood == RSum(weighted_prob)
    IN  [k \in 1 .. K |-> RDiv(weighted_prob[k], likelihood)]

\* The matrix: K rows of NObs entries.
responsibility_matrix(impl_, weight_, levels) ==
    LET columns == [n \in 1 .. NObs |->
            IF impl_ = "ka"
                THEN responsibility_column(weight_,
                         [k \in 1 .. Len(weight_) |-> levels[k][n]])
                ELSE responsibility_column_search(weight_,
                         [k \in 1 .. Len(weight_) |-> levels[k][n]])]
    IN  [k \in 1 .. Len(weight_) |-> [n \in 1 .. NObs |-> columns[n][k]]]

\* The position of observation n's column among the columns of levels.
RECURSIVE LevelCode(_, _, _)
LevelCode(levels, n, k) ==
    IF k = 0 THEN 0
    ELSE (CASE levels[k][n] = "far" -> 0
            [] levels[k][n] = "near" -> 1
            [] levels[k][n] = "big" -> 2)
         + 3 * LevelCode(levels, n, k - 1)

\* The function treats every observation alike, so one order of the
\* observations stands for all.
LevelMatrices(K) ==
    {levels \in [1 .. K -> [1 .. NObs -> Levels]] :
        \A n \in 1 .. NObs - 1 :
            LevelCode(levels, n, K) <= LevelCode(levels, n + 1, K)}

\* The variables that a call of one function on its own leaves unset.
CallOnly ==
    /\ em_calls = <<>>
    /\ merge_pair = None
    /\ covariance_type = DefaultCovarianceType(impl)
    /\ mu = Unset("mu")
    /\ cov = Unset("cov")
    /\ weight = Unset("weight")
    /\ R = Unset("R")
    /\ mindl = inf
    /\ iterations = 0
    /\ m = 0
    /\ best_perturbations = <<>>
    /\ returned = None
    /\ calls = <<>>
    /\ roundDls = {}
    /\ raisedAt = None
    /\ message_length = inf
    /\ meta = [src |-> <<0, "unset", 0>>]
    /\ num_components = 0
    /\ ll_dl = <<>>
    /\ threshold = <<1, DefaultThresholdDen>>
    /\ max_em_iterations = DefaultMaxEmIterations

AllFinite(R_) ==
    \A k \in 1 .. Len(R_) : \A n \in 1 .. NObs : IsFinite(R_[k][n])

\* The call: mixture_ka asserts that the matrix is finite, mixture_search
\* returns what it computed.
ResponsibilityMatrix ==
    /\ pc = "rm_ready"
    /\ LET r == responsibility_matrix(impl, heap[1], heap[2])
       IN  IF impl = "ka" /\ ~AllFinite(r)
               THEN /\ pc' = "rm_failed"
                    /\ returned' = None
               ELSE /\ pc' = "rm_done"
                    /\ returned' = r
    /\ UNCHANGED <<heap, before, em_calls, calls, raisedAt, merge_pair>>
    /\ UNCHANGED notOps

InitRM ==
    /\ pc = "rm_ready"
    /\ impl \in {"ka", "search"}
    /\ \E K \in 1 .. MaxOpsK :
          \E weight_ \in WeightVectors(K), levels \in LevelMatrices(K) :
              heap = <<weight_, levels>>
    /\ before = heap
    /\ CallOnly

NextRM == ResponsibilityMatrix

SpecRM == InitRM /\ [][NextRM]_vars

(***************************************************************************)
(* The seeds of split_component, on their own.  heap holds the distance of *)
(* every observation from each of the two child means, in one dimension;   *)
(* returned is child_responsibility as the children's run is given it.     *)
(***************************************************************************)
\* Largest distance drawn between an observation and a child mean.
MaxDistance == 2

\* mixture_ka, lines 613-617: the sums of absolute differences, each column
\* divided by its sum.
child_responsibility_ka(distance) ==
    [k \in 1 .. 2 |-> [n \in 1 .. NObs |->
        RDiv(<<distance[k][n], 1>>,
             RAdd(<<distance[1][n], 1>>, <<distance[2][n], 1>>))]]

\* np.argmin(distance, axis=0): the first position of the minimum.
argmin(distance, n) ==
    IF distance[2][n] * distance[2][n] < distance[1][n] * distance[1][n]
        THEN 1 ELSE 0

\* mixture_search, lines 1527-1535: zeros, and 1.0 at the child whose
\* squared distance is the smallest.
child_responsibility_search(distance) ==
    [k \in 1 .. 2 |-> [n \in 1 .. NObs |->
        IF argmin(distance, n) = k - 1 THEN One ELSE Zero]]

SeedChildren ==
    /\ pc = "seed_ready"
    /\ pc' = "seed_done"
    /\ returned' = IF impl = "ka" THEN child_responsibility_ka(heap[1])
                                  ELSE child_responsibility_search(heap[1])
    /\ UNCHANGED <<heap, before, em_calls, calls, raisedAt, merge_pair>>
    /\ UNCHANGED notOps

InitSeed ==
    /\ pc = "seed_ready"
    /\ impl \in {"ka", "search"}
    /\ \E distance \in [1 .. 2 -> [1 .. NObs -> 0 .. MaxDistance]] :
          heap = <<distance>>
    /\ before = heap
    /\ CallOnly

NextSeed == SeedChildren

SpecSeed == InitSeed /\ [][NextSeed]_vars

(***************************************************************************)
(* Construction of a GaussianMixture and the entry of its fit call.  In    *)
(* mixture_ka.py the constructor takes the covariance type and fit takes   *)
(* threshold and max_em_iterations; in mixture_search.py the constructor   *)
(* takes all three and fit reads them from the object.                     *)
(***************************************************************************)

\* Number of dimensions of the data.
Dim == 2

\* The covariance types a caller passes; " Free " stands for the spellings
\* that differ from a known name by case and surrounding blanks.
CovarianceTypeArgs ==
    {"free", " Free ", "diag", "tied", "tied_diag", "full", "gmm"}

\* covariance_type.strip().lower()
strip_lower(s) == IF s = " Free " THEN "free" ELSE s

\* The tuple `available` of the constructor.
available(impl_) ==
    IF impl_ = "ka" THEN {"free", "diag", "tied", "tied_diag"}
                    ELSE {"full", "diag"}

\* The types that pass the second test of mixture_ka's constructor.
implemented(impl_) ==
    IF impl_ = "ka" THEN {"free", "tied"} ELSE available(impl_)

\* Thresholds a caller passes: negative, zero and positive.
ThresholdArgs == {<<n, DefaultThresholdDen>> : n \in -1 .. 1}

\* Iteration caps a caller passes.
IterationArgs == 0 .. MaxEmIterations

\* What a function that returns has raised.
NoError == "no error"

\* if 0 >= threshold / if 1 > max_em_iterations
settings_checked_never(threshold_, max_em_iterations_) == NoError

settings_checked(threshold_, max_em_iterations_) ==
    IF 0 >= threshold_[1] THEN "ValueError"
    ELSE IF 1 > max_em_iterations_ THEN "ValueError"
    ELSE NoError

\* What __init__ raises, NoError if it returns.
init_raises(impl_, covariance_type_, threshold_, max_em_iterations_) ==
    IF strip_lower(covariance_type_) \notin available(impl_)
    THEN "ValueError"
    ELSE IF strip_lower(covariance_type_) \notin implemented(impl_)
    THEN "NotImplementedError"
    ELSE IF impl_ = "search"
    THEN settings_checked(threshold_, max_em_iterations_)
    ELSE NoError

\* _parameters_per_component(D, covariance_type) of mixture_ka.py.
parameters_per_component(D, covariance_type_) ==
    CASE covariance_type_ = "free" -> [raised |-> FALSE,
                                       N_cp |-> D + (D * (D + 1)) \div 2]
      [] covariance_type_ = "diag" -> [raised |-> FALSE, N_cp |-> 2 * D]
      [] covariance_type_ = "tied" -> [raised |-> FALSE, N_cp |-> D]
      [] covariance_type_ = "tied_diag" -> [raised |-> FALSE, N_cp |-> D]
      [] OTHER -> [raised |-> TRUE, N_cp |-> 0]

\* GaussianMixture(covariance_type=..., threshold=..., max_em_iterations=...):
\* mixture_ka's constructor takes the last two into **kwargs and drops them.
Construct ==
    /\ pc = "new"
    /\ \E covariance_type_ \in CovarianceTypeArgs, threshold_ \in ThresholdArgs,
          max_em_iterations_ \in IterationArgs :
          LET error == init_raises(impl, covariance_type_, threshold_,
                                   max_em_iterations_)
          IN  /\ calls' = Append(calls, <<"__init__", covariance_type_,
                                          threshold_, max_em_iterations_>>)
              /\ IF error # NoError
                 THEN /\ pc' = "rejected"
                      /\ raisedAt' = <<error, "__init__">>
                      /\ UNCHANGED <<covariance_type, threshold,
                                     max_em_iterations>>
                 ELSE /\ pc' = "constructed"
                      /\ covariance_type' = strip_lower(covariance_type_)
                      /\ IF impl = "search"
                         THEN /\ threshold' = threshold_
                              /\ max_em_iterations' = max_em_iterations_
                         ELSE UNCHANGED <<threshold, max_em_iterations>>
                      /\ UNCHANGED raisedAt
    /\ UNCHANGED <<mu, cov, weight, R, mindl, iterations, m,
                   best_perturbations, returned, roundDls, message_length,
                   meta, num_components, ll_dl, heap, before, merge_pair,
                   em_calls, impl>>

\* model.fit(threshold=..., max_em_iterations=...): the arguments are bound.
\* mixture_search's fit takes them into **kwargs and reads the object's.
FitCall ==
    /\ pc = "constructed"
    /\ \E threshold_ \in ThresholdArgs, max_em_iterations_ \in IterationArgs :
          /\ calls' = Append(calls, <<"fit", threshold_, max_em_iterations_>>)
          /\ IF impl = "ka"
             THEN /\ threshold' = threshold_
                  /\ max_em_iterations' = max_em_iterations_
             ELSE UNCHANGED <<threshold, max_em_iterations>>
    /\ pc' = "fit_called"
    /\ UNCHANGED <<mu, cov, weight, R, mindl, iterations, m,
                   best_perturbations, returned, roundDls, raisedAt,
                   message_length, meta, num_components, ll_dl, heap, before,
                   merge_pair, em_calls, impl, covariance_type>>

\* The first statements of fit: mixture_ka tests its two arguments,
\* mixture_search builds kwds from the object.
FitValidate ==
    /\ pc = "fit_called"
    /\ LET error == IF impl = "ka"
                    THEN settings_checked(threshold, max_em_iterations)
                    ELSE NoError
       IN  IF error # NoError
           THEN /\ pc' = "fit_rejected"
                /\ raisedAt' = <<error, "fit">>
           ELSE /\ pc' = "fit_validated"
                /\ UNCHANGED raisedAt
    /\ UNCHANGED <<mu, cov, weight, R, mindl, iterations, m,
                   best_perturbations, returned, calls, roundDls,
                   message_length, meta, num_components, ll_dl, threshold,
                   max_em_iterations, heap, before, merge_pair, em_calls,
                   impl, covariance_type>>

\* _initialize(y), iterations = 1 and, in mixture_ka, the number of
\* parameters per component.
FitInitialize ==
    /\ pc = "fit_validated"
    /\ LET count == IF impl = "ka"
                    THEN parameters_per_component(Dim, covariance_type)
                    ELSE [raised |-> FALSE, N_cp |-> 0]
       IN  IF count.raised
           THEN /\ pc' = "fit_rejected"
                /\ raisedAt' = <<"ValueError", "_parameters_per_component">>
                /\ UNCHANGED <<iterations, meta>>
           ELSE /\ pc' = "fit_initialized"
                /\ iterations' = 1
                /\ meta' = [N_cp |-> count.N_cp]
                /\ UNCHANGED raisedAt
    /\ UNCHANGED <<mu, cov, weight, R, mindl, m, best_perturbations,
                   returned, calls, roundDls, message_length,
                   num_components, ll_dl, threshold, max_em_iterations, heap,
                   before, merge_pair, em_calls, impl, covariance_type>>

\* The search rounds of fit, as one step: they never read covariance_type
\* again, and fit returns the mixture found.
FitSearch ==
    /\ pc = "fit_initialized"
    /\ pc' = "fit_returned"
    /\ returned' = [covariance_type |-> covariance_type, N_cp |-> meta.N_cp]
    /\ UNCHANGED <<mu, cov, weight, R, mindl, iterations, m,
                   best_perturbations, calls, roundDls, raisedAt,
                   message_length, meta, num_components, ll_dl, threshold,
                   max_em_iterations, heap, before, merge_pair, em_calls,
                   impl, covariance_type>>

InitNew ==
    /\ pc = "new"
    /\ impl \in {"ka", "search"}
    /\ covariance_type = None
    /\ threshold = None
    /\ max_em_iterations = None
    /\ heap = <<>>
    /\ before = <<>>
    /\ em_calls = <<>>
    /\ merge_pair = None
    /\ mu = Unset("mu")
    /\ cov = Unset("cov")
    /\ weight = Unset("weight")
    /\ R = Unset("R")
    /\ mindl = inf
    /\ iterations = 0
    /\ m = 0
    /\ best_perturbations = <<>>
    /\ returned = None
    /\ calls = <<>>
    /\ roundDls = {}
    /\ raisedAt = None
    /\ message_length = inf
    /\ meta = [src |-> <<0, "unset", 0>>]
    /\ num_components = 0
    /\ ll_dl = <<>>

NextNew ==
    \/ Construct
    \/ FitCall
    \/ FitValidate
    \/ FitInitialize
    \/ FitSearch

SpecNew == InitNew /\ [][NextNew]_vars

(***************************************************************************)
(* The scoring call, _expectation: the message length of a mixture from    *)
(* the terms its code adds up.  The terms that depend on the data are      *)
(* drawn; the sums and the assertions are the code's.                      *)
(***************************************************************************)

\* Largest magnitude of a drawn term.
MaxTerm == 2

\* The integer i as a fraction.
Frac(i) == <<i, 1>>

FiniteTerms == {Frac(i) : i \in (0 - MaxTerm) .. MaxTerm}

\* What a sum of logarithms of determinants can be: finite, or infinite
\* when a determinant underflows to 0 or overflows, or nan.
ExtendedTerms == FiniteTerms \cup {np_inf, <<0 - 1, 0>>, np_nan}

\* a >= b
RGeq(a, b) == a = b \/ RLt(b, a)

\* delta_length of mixture_ka's _expectation: log_likelihood is
\* np.sum(np.log(normalization_constants)), sum_log_weight is
\* np.sum(np.log(weight)), log_N is np.log(N).
delta_length(log_likelihood, sum_log_weight, log_N, K, N_component_pars) ==
    RAdd(RAdd(RSub(Zero, log_likelihood),
              RMul(<<N_component_pars, 2>>, sum_log_weight)),
         RMul(RMul(RAdd(<<N_component_pars, 2>>, <<1, 2>>), Frac(K)), log_N))

\* num_free_params of mixture_search's _message_length.
num_free_params(D, M) == <<D * (D + 3) * M + 2 * (M - 1), 2>>

\* I = part1 + part2 of mixture_search's _message_length, in bits.
message_length_search(M, I_w, sum_It, lattice, Il) ==
    RAdd(RAdd(RAdd(RAdd(Frac(M), I_w), sum_It), lattice),
         RAdd(Il, RMul(<<1, 2>>, num_free_params(Dim, M))))

\* The assertions of the scoring call: mixture_ka asserts that the
\* log-likelihood is finite, mixture_search that I_w >= -0.5 and I > 0.
score_asserts(impl_, log_likelihood, I_w, I) ==
    IF impl_ = "ka" THEN IsFinite(log_likelihood)
    ELSE RGeq(I_w, <<0 - 1, 2>>) /\ RLt(Zero, I)

\* The inputs of one scoring call: <<K, the terms>>.
ScoreInputs(impl_) ==
    IF impl_ = "ka"
    THEN {<<K, ll, slw, Frac(log_N)>> :
             K \in 1 .. MaxOpsK, ll \in FiniteTerms,
             slw \in {Frac(0 - i) : i \in 0 .. MaxTerm},
             log_N \in 1 .. MaxTerm}
    ELSE {<<K, I_w, sum_It, lattice, Il>> :
             K \in 1 .. MaxOpsK,
             I_w \in {Frac(0 - 1), <<0 - 1, 2>>, Zero, One},
             sum_It \in ExtendedTerms, lattice \in {Frac(0 - 1), Zero, One},
             Il \in FiniteTerms}

\* The value _expectation computes from its inputs.
Score(impl_, in) ==
    IF impl_ = "ka"
    THEN delta_length(in[2], in[3], in[4], in[1],
                      parameters_per_component(Dim, "free").N_cp)
    ELSE message_length_search(in[1], in[2], in[3], in[4], in[5])

\* _expectation(y, mu, cov, weight, ...): returns the message length to the
\* controller or fails on an assertion.  The second input is the
\* log-likelihood in mixture_ka and I_w in mixture_search.
Expectation ==
    /\ pc = "score_ready"
    /\ LET in == heap[1]
           I == Score(impl, in)
       IN  IF score_asserts(impl, in[2], in[2], I)
           THEN /\ pc' = "scored"
                /\ returned' = I
                /\ UNCHANGED raisedAt
           ELSE /\ pc' = "score_raised"
                /\ raisedAt' = <<"AssertionError", "_expectation">>
                /\ UNCHANGED returned
    /\ UNCHANGED <<heap, before, em_calls, calls, merge_pair>>
    /\ UNCHANGED notOps

InitScore ==
    /\ pc = "score_ready"
    /\ impl \in {"ka", "search"}
    /\ \E in \in ScoreInputs(impl) : heap = <<in>>
    /\ before = heap
    /\ CallOnly

NextScore == Expectation

SpecScore == InitScore /\ [][NextScore]_vars

(***************************************************************************)
(* kullback_leibler_for_multivariate_normals on one-dimensional Gaussians  *)
(* (k = 1): the matrices are the variances, the trace and the determinant  *)
(* of a matrix are its entry.  The logarithm is not a fraction, so the     *)
(* result is an interval [lo, hi] that encloses the value; the interval is *)
(* the single value 0 at ln(1).                                            *)
(***************************************************************************)

\* Largest numerator and denominator of a drawn variance.
MaxVar == 2

Variances == {RNorm(i, j) : i, j \in 1 .. MaxVar}

Means == {Frac(i) : i \in 0 .. MaxDistance}

\* np.log(x) for x > 0, as bounds: ln(x) lies between 2(x - 1)/(x + 1) and
\* (x^2 - 1)/(2x), the first being the lower bound for x >= 1 and the upper
\* bound for x <= 1.
np_log(x) ==
    LET p == RDiv(RMul(<<2, 1>>, RSub(x, One)), RAdd(x, One))
        q == RDiv(RSub(RMul(x, x), One), RMul(<<2, 1>>, x))
    IN  IF RLt(x, One) THEN [lo |-> q, hi |-> p] ELSE [lo |-> p, hi |-> q]

\* np.trace(np.dot(Ca_inv, cov_b))
trace_term(cov_a, cov_b) == RDiv(cov_b, cov_a)

\* 0.5 * np.sum([trace, offset' Cb_inv offset, -k, log(det_b/det_a)])
kullback_leibler_for_multivariate_normals(mu_a, cov_a, mu_b, cov_b) ==
    LET offset == RSub(mu_b, mu_a)
        rest == RSub(RAdd(trace_term(cov_a, cov_b),
                          RDiv(RMul(offset, offset), cov_b)), One)
        log_ == np_log(RDiv(cov_b, cov_a))
    IN  [lo |-> RMul(<<1, 2>>, RAdd(rest, log_.lo)),
         hi |-> RMul(<<1, 2>>, RAdd(rest, log_.hi))]

\* One call of the function, on the arguments in the heap.
KullbackLeibler ==
    /\ pc = "kl_ready"
    /\ returned' = kullback_leibler_for_multivariate_normals(
                       heap[1], heap[2], heap[3], heap[4])
    /\ pc' = "kl_returned"
    /\ UNCHANGED <<heap, before, em_calls, calls, raisedAt, merge_pair>>
    /\ UNCHANGED notOps

InitKL ==
    /\ pc = "kl_ready"
    /\ impl \in {"ka", "search"}
    /\ \E mu_a \in Means, mu_b \in Means, cov_a \in Variances,
          cov_b \in Variances :
          heap = <<mu_a, cov_a, mu_b, cov_b>>
    /\ before = heap
    /\ CallOnly

NextKL == KullbackLeibler

SpecKL == InitKL /\ [][NextKL]_vars

(***************************************************************************)
(* One M-step/E-step pair of mixture_ka's _expectation_maximization on a   *)
(* one-component mixture of one-dimensional data: the responsibilities     *)
(* are 1, so the M-step is the sample mean and the sample variance with    *)
(* divisor N - 1, and the weight stays (N + 0.5)/(N + 0.5) = 1.            *)
(***************************************************************************)

Data == [1 .. NObs -> 0 .. MaxDistance]

\* The sum of (y - mu)^2 over the observations.
SquaredOffsets(y, mu_) ==
    RSum([n \in 1 .. NObs |->
             RMul(RSub(Frac(y[n]), mu_), RSub(Frac(y[n]), mu_))])

\* _maximization with all responsibilities 1: (new_mu, new_cov).
maximization_one(y) ==
    LET new_mu == RDiv(RSum([n \in 1 .. NObs |-> Frac(y[n])]), Frac(NObs))
    IN  <<new_mu, RDiv(SquaredOffsets(y, new_mu), Frac(NObs - 1))>>

\* dl after the pair minus dl before it.  The terms of delta_length other
\* than -log_likelihood are the same in both, and the log-likelihood is
\* the sum over n of -log(2 pi)/2 - log(cov)/2 - (y_n - mu)^2/(2 cov).
delta_length_change(y, mu_, cov_, new_mu, new_cov) ==
    LET log_ == np_log(RDiv(new_cov, cov_))
        rest == RMul(<<1, 2>>,
                     RSub(RDiv(SquaredOffsets(y, new_mu), new_cov),
                          RDiv(SquaredOffsets(y, mu_), cov_)))
    IN  [lo |-> RAdd(RMul(<<NObs, 2>>, log_.lo), rest),
         hi |-> RAdd(RMul(<<NObs, 2>>, log_.hi), rest)]

\* One pass of the loop: _maximization, then _expectation, which fails on
\* its assertion when the new variance is 0.
PairOne ==
    /\ pc = "pair_ready"
    /\ LET y == heap[1]
           new == maximization_one(y)
       IN  IF new[2] = Zero
           THEN /\ pc' = "pair_raised"
                /\ raisedAt' = <<"AssertionError", "_expectation">>
                /\ UNCHANGED returned
           ELSE /\ pc' = "pair_done"
                /\ returned' = [mu |-> new[1], cov |-> new[2],
                                change |-> delta_length_change(
                                    y, heap[2], heap[3], new[1], new[2])]
                /\ UNCHANGED raisedAt
    /\ UNCHANGED <<heap, before, em_calls, calls, merge_pair>>
    /\ UNCHANGED notOps

InitPair ==
    /\ pc = "pair_ready"
    /\ impl = "ka"
    /\ \E y \in Data, mu_ \in Means, cov_ \in Variances :
          heap = <<y, mu_, cov_>>
    /\ before = heap
    /\ CallOnly

NextPair == PairOne

SpecPair == InitPair /\ [][NextPair]_vars

(***************************************************************************)
(* Properties of the search of mixture_ka.py                               *)
(***************************************************************************)
Families == {"split", "delete", "merge"}

\* The candidate the round selects: what `Get best perturbation` unpacks.
Selected == MinItem(best_perturbations)

\* How many times `op` was called on component `i` in the current round.
Count(op, i) == Cardinality({j \in 1 .. Len(calls) : calls[j] = <<op, i>>})

\* C1: at the end of a round the best candidate replaces the incumbent
\* (mu, cov, weight, responsibility, message length) if and only if its
\* message length is strictly lower than the incumbent's; otherwise the
\* search stops and returns the incumbent unchanged.
C1_AcceptIffStrictlyLower ==
    [][(pc = "select" /\ Len(Selected[2]) = 7) =>
         LET bp == Selected[2]
         IN  IF bp[7] < mindl
                 THEN /\ <<mu', cov', weight', R', mindl'>>
                            = <<bp[2], bp[3], bp[4], bp[5], bp[7]>>
                      /\ pc' \notin Terminal
                      /\ returned' = None
                 ELSE /\ <<mu', cov', weight', R', mindl'>>
                            = <<mu, cov, weight, R, mindl>>
                      /\ pc' = "Converged"
                      /\ returned' = <<mu, cov, weight>>]_vars

\* C1 witness: a search that accepted a candidate and then stopped on one
\* of equal message length.
C1_Witness ==
    /\ pc = "Converged"
    /\ iterations >= 2
    /\ Selected[2][7] = mindl
    /\ returned = <<mu, cov, weight>>

\* C2: in a round with K components split_component is called exactly once
\* on each index 0..K-1; delete_component and merge_component are each
\* called exactly once on each index when K > 1 and not at all when K = 1.
C2_EachCandidateOnce ==
    LET K == weight.size
    IN  /\ \A c \in {calls[j] : j \in 1 .. Len(calls)} :
               /\ c[1] \in Families
               /\ c[2] \in 0 .. (K - 1)
               /\ Count(c[1], c[2]) = 1
               /\ (K = 1 => c[1] = "split")
        /\ pc = "select" =>
               \A i \in 0 .. (K - 1) :
                   /\ Count("split", i) = 1
                   /\ K > 1 => (Count("delete", i) = 1 /\ Count("merge", i) = 1)

\* C2 witness: the end of a round with three components and of one with
\* a single component is reached (checked as two conjuncts of one state:
\* the current round has three components, the first had one).
C2_Witness ==
    /\ pc = "select"
    /\ weight.size = 3
    /\ Len(calls) = 9

\* C3: the selected candidate's message length is at most that of every
\* split, delete and merge candidate evaluated in the round.
C3_SelectedIsMinimal ==
    pc = "select" =>
        /\ roundDls # {}
        /\ \A d \in roundDls : Last(Selected[2]) <= d

\* C3 witness: a round of all three families whose minimum is a delete or
\* merge candidate and in which several message lengths occurred.
C3_Witness ==
    /\ pc = "select"
    /\ weight.size > 1
    /\ Cardinality(roundDls) >= 2
    /\ Selected[1] # "split"

\* C4: the search starts with one component, an accepted split adds exactly
\* one component, an accepted delete or merge removes exactly one, and the
\* incumbent always has at least one component.
C4_ComponentCount ==
    /\ [][((pc = "init" /\ pc' # "Failed") => weight'.size = 1)
          /\ ((pc = "select" /\ weight' # weight) =>
                (weight'.size = weight.size
                    + (IF Selected[1] = "split" THEN 1 ELSE 0 - 1)))]_vars
    /\ []((pc # "init" /\ raisedAt # <<"init", 0>>) => weight.size >= 1)

\* C4 witness: an accepted split followed by an accepted delete or merge.
C4_Witness ==
    /\ iterations = 3
    /\ weight.size = 1
    /\ weight.src[2] \in {"delete", "merge"}

\* C6: every run of fit reaches Converged or Failed, and from then on no
\* round is run and nothing of the incumbent changes.
C6_Terminates ==
    /\ <>(pc \in Terminal)
    /\ [][(pc \in Terminal) => (vars' = vars)]_vars

\* C6 witness: a run that converged after several rounds.
C6_Witness ==
    /\ pc = "Converged"
    /\ iterations = MaxML + 1

\* C7: when the evaluation of a candidate raises, fit has failed: the
\* failing call is the last call of the round, nothing is returned, and
\* nothing runs afterwards.
C7_ErrorAborts ==
    raisedAt # None =>
        /\ pc = "Failed"
        /\ returned = None
        /\ raisedAt[1] \in Families => Last(calls) = raisedAt
        /\ ~ENABLED NextKA

\* C7 witness: a delete candidate of a later round raised before the last
\* index, with candidates kept from the same round.
C7_Witness ==
    /\ pc = "Failed"
    /\ raisedAt = <<"delete", 0>>
    /\ weight.size = 2
    /\ best_perturbations # <<>>

(***************************************************************************)
(* Properties of the search of mixture_search.py                           *)
(***************************************************************************)

\* C5: in mixture_search's fit the incumbent is replaced by a round's best
\* candidate only when the candidate's message length is strictly lower
\* than the incumbent's.
C5_ReplacedOnlyIfLower ==
    [][(pc = "select" /\ <<mu', cov', weight', R'>> # <<mu, cov, weight, R>>)
          => message_length' < message_length]_vars

(***************************************************************************)
(* Properties of _expectation_maximization                                 *)
(***************************************************************************)
Stopped == {"em_break", "em_returned", "em_kept"}

\* The pair that appended ll_dl[i], the (i - 1)-th pair of the run, meets a
\* stopping condition: the relative change of the log-likelihood is at or
\* below the threshold, or the counter (i) is at or above the cap.
PairStops(i) ==
    \/ Abs(ll_dl[i][1] - ll_dl[i - 1][1]) * threshold[2]
          <= threshold[1] * Abs(ll_dl[i - 1][1])
    \/ i >= max_em_iterations

C10_CapIsWarningNotError ==
    /\ []((pc \in {"em_returned", "em_kept"}
              /\ iterations >= max_em_iterations) =>
            /\ raisedAt = None
            /\ Len(returned) = 6
            /\ <<returned[1], returned[2], returned[3], returned[4]>>
                  = <<mu, cov, weight, R>>
            /\ returned[5].warnflag
            /\ returned[6] = Last(ll_dl)[2])
    /\ [][(pc = "em_returned" /\ iterations >= max_em_iterations) =>
            best_perturbations'
              = IF best_perturbations = <<>> \/ returned[6] < 1
                    THEN <<<<"split", <<1>> \o returned>>>>
                    ELSE best_perturbations]_vars

\* C10 witness: a run stopped by the cap alone (its last change of the
\* log-likelihood is above the threshold) whose result replaced the
\* candidate kept before.
C10_Witness ==
    /\ pc = "em_kept"
    /\ iterations = max_em_iterations
    /\ iterations = 3
    /\ Abs(ll_dl[3][1] - ll_dl[2][1]) * threshold[2]
          > threshold[1] * Abs(ll_dl[2][1])
    /\ returned[5].warnflag
    /\ best_perturbations = <<<<"split", <<1>> \o returned>>>>
    /\ returned[6] = 0

(***************************************************************************)
(* Properties of the perturbation operators                                *)
(***************************************************************************)
\* C8: split_component, delete_component and merge_component never modify
\* the mu, cov, weight or responsibility arrays passed to them: whatever
\* the index and the input, and whether the call returns or raises, the
\* four arrays are element for element what they were when the call began,
\* so the next candidate is computed from the same incumbent.
C8_InputsNotMutated ==
    \A ref \in ArgRefs : heap[ref] = before[ref]

\* C8 witness: a merge of a two-component mixture has returned, after it
\* stored the merged rows in arrays of its own.
C8_Witness ==
    /\ pc = "ops_done"
    /\ calls = <<<<"merge", 1>>>>
    /\ Len(before[Args.weight]) = 2
    /\ Len(em_calls[1].weight) = 1
    /\ em_calls[1].weight[1] = One
    /\ em_calls[1].mu[1] = <<"merged", "mu", 0>>
    /\ heap[Args.weight] = before[Args.weight]

(***************************************************************************)
(* Properties of the operators' arithmetic                                 *)
(***************************************************************************)
\* The tolerance of a sum that should be 1: 1e-8, about the square root of
\* eps; here likewise well above 1/EpsDen and below 1/(Grain * (NObs + 1)).
Tol == <<1, 1024>>

\* |a - 1| <= Tol
NearOne(a) ==
    /\ IsFinite(a)
    /\ Abs(a[1] - a[2]) <= a[2] \div Tol[2]

SumsToOne(w) == NearOne(RSum(w))

AllPositive(w) == \A k \in 1 .. Len(w) : IsFinite(w[k]) /\ RLt(Zero, w[k])

\* The call has returned the result of a run that stopped after its first
\* maximization, so the weights are those of that maximization.
SingleReturned(op) ==
    /\ pc = "ops_done"
    /\ calls[1][1] = op
    /\ returned[5].single

\* C11: the weights a run of expectation-maximization returns are all
\* strictly positive and sum to 1, also when the run stops after a single
\* maximization, whose weights (n_k + 0.5)/(N + K/2) come from the
\* responsibility matrix the operator supplied.
C11_WeightsPositiveAndSumToOne ==
    pc = "ops_done" /\ returned[5].single
        => AllPositive(returned[3]) /\ SumsToOne(returned[3])

\* C12: for a valid mixture (positive weights that sum to 1, densities that
\* are finite and not negative) the matrix responsibility_matrix returns
\* has every entry in [0, 1] and every observation's column summing to 1.
C12_ResponsibilitiesInUnitIntervalColumnsSumToOne ==
    pc = "rm_done" =>
        /\ \A k \in 1 .. Len(returned) : \A n \in 1 .. NObs :
              /\ IsFinite(returned[k][n])
              /\ ~RLt(returned[k][n], Zero)
              /\ ~RLt(One, returned[k][n])
        /\ \A n \in 1 .. NObs :
              NearOne(RSum([k \in 1 .. Len(returned) |-> returned[k][n]]))

\* C12 witness: mixture_ka has returned the matrix of two components where
\* one observation is far from the first mean and above the largest
\* denominator under the second, so that the clip to eps acted; the other
\* observation is far from both means.
C12_Witness ==
    /\ pc = "rm_done"
    /\ impl = "ka"
    /\ heap[2] = <<<<"far", "far">>, <<"far", "big">>>>
    /\ returned[1][1] = <<1, 2>>
    /\ returned[1][2] = <<1, EpsDen + 1>>
    /\ returned[2][2] = <<EpsDen, EpsDen + 1>>

\* C13: for a mixture of K > 1 components whose weights sum to 1 and any
\* index, the mixture delete_component returns has K - 1 weights, and they
\* sum to 1.
C13_DeleteReturnsWeightsThatSumToOne ==
    SingleReturned("delete") =>
        /\ Len(returned[3]) = Len(before[Args.weight]) - 1
        /\ SumsToOne(returned[3])

\* C14: the renormalised responsibility matrix that delete_component hands
\* to expectation-maximization has every entry finite and in [0, 1], for
\* every input, also when the deleted component's responsibility for an
\* observation is exactly 1.
C14_DeleteHandsFiniteResponsibilities ==
    calls # <<>> /\ calls[1][1] = "delete" =>
        \A k \in 1 .. Len(em_calls[1].responsibility) : \A n \in 1 .. NObs :
            /\ IsFinite(em_calls[1].responsibility[k][n])
            /\ ~RLt(em_calls[1].responsibility[k][n], Zero)
            /\ ~RLt(One, em_calls[1].responsibility[k][n])

\* C15: merge_component(index) merges the indexed component with another
\* component, one whose divergence from the indexed component is minimal
\* over all the other components, and among those of minimal divergence
\* the one at the lowest position.
C15_MergesWithNearestOther ==
    merge_pair # None =>
        LET D == merge_pair.D_kl
            a == merge_pair.a_index + 1
            b == merge_pair.b_index + 1
            others == (1 .. Len(D)) \ {a}
        IN  /\ b \in others
            /\ \A j \in others : ~RLt(D[j], D[b])
            /\ \A j \in others : j < b => D[j] # D[b]

\* C16: the state merge_component hands to expectation-maximization has
\* K - 1 components: the higher-indexed of the two merged components is
\* removed, the lower-indexed one is replaced by the merged component,
\* whose weight is the sum of the two weights and whose responsibility row
\* is the sum of the two rows; every other component keeps its parameters
\* and its relative order, and the weights sum to the same total.
C16_MergedStateHandedToEM ==
    merge_pair # None =>
        LET a == merge_pair.a_index + 1
            b == merge_pair.b_index + 1
            lo == Min(a, b)
            hi == Max(a, b)
            K == Len(before[Args.weight])
            new == em_calls[1]
            old(ref, c) == before[ref][c]
            at(c) == IF c < hi THEN c ELSE c - 1
        IN  /\ Len(new.weight) = K - 1
            /\ Len(new.mu) = K - 1
            /\ Len(new.cov) = K - 1
            /\ Len(new.responsibility) = K - 1
            /\ new.mu[lo] = <<"merged", "mu", lo - 1>>
            /\ new.cov[lo] = <<"merged", "cov", lo - 1>>
            /\ new.weight[lo] = RAdd(old(Args.weight, a), old(Args.weight, b))
            /\ \A n \in 1 .. NObs :
                  new.responsibility[lo][n]
                      = RAdd(old(Args.responsibility, a)[n],
                             old(Args.responsibility, b)[n])
            /\ \A c \in (1 .. K) \ {a, b} :
                  /\ new.mu[at(c)] = old(Args.mu, c)
                  /\ new.cov[at(c)] = old(Args.cov, c)
                  /\ new.weight[at(c)] = old(Args.weight, c)
                  /\ new.responsibility[at(c)] = old(Args.responsibility, c)
            /\ RSum(new.weight) = RSum(before[Args.weight])

\* The call split a mixture of more than one component and got as far as
\* its expectation-maximization on the spliced K + 1 components.
SplitSpliced ==
    /\ calls # <<>>
    /\ calls[1][1] = "split"
    /\ Len(before[Args.weight]) > 1
    /\ em_calls # <<>>
    /\ Len(Last(em_calls).weight) = Len(before[Args.weight]) + 1

\* The two children that split_component splices in: in mixture_ka what
\* the children's own run returned, in mixture_search the seeds.
Children ==
    IF impl = "ka"
        THEN [mu |-> Rows("child", "mu", 2), cov |-> Rows("child", "cov", 2),
              weight |-> heap[12], responsibility |-> heap[13]]
        ELSE [mu |-> Rows("seed", "mu", 2), cov |-> Rows("seed", "cov", 2),
              weight |-> heap[7], responsibility |-> heap[8]]

\* C17: when split_component(index) is applied to a mixture of K > 1
\* components, the state of K + 1 components it hands to the final
\* expectation-maximization has the first child at position index, the
\* second child at the new last position K, and every other component at
\* its original position with unchanged mean, covariance, weight and
\* responsibility row.
C17_ChildrenAtIndexAndAtTheEnd ==
    SplitSpliced =>
        LET K == Len(before[Args.weight])
            i == calls[1][2] + 1
            new == Last(em_calls)
        IN  /\ Len(new.mu) = K + 1
            /\ Len(new.cov) = K + 1
            /\ Len(new.responsibility) = K + 1
            /\ new.mu[i] = Children.mu[1]
            /\ new.cov[i] = Children.cov[1]
            /\ new.mu[K + 1] = Children.mu[2]
            /\ new.cov[K + 1] = Children.cov[2]
            /\ new.weight[i]
                   = RMul(before[Args.weight][i], Children.weight[1])
            /\ new.weight[K + 1]
                   = RMul(before[Args.weight][i], Children.weight[2])
            /\ \A c \in (1 .. K) \ {i} :
                  /\ new.mu[c] = before[Args.mu][c]
                  /\ new.cov[c] = before[Args.cov][c]
                  /\ new.weight[c] = before[Args.weight][c]
                  /\ new.responsibility[c] = before[Args.responsibility][c]

\* C17 witness: mixture_search has split the first of two components and
\* returned; the final run was handed the first seed, the untouched second
\* component and the second seed, in this order.
C17_Witness ==
    /\ pc = "ops_done"
    /\ impl = "search"
    /\ calls = <<<<"split", 0>>>>
    /\ Len(before[Args.weight]) = 2
    /\ Last(em_calls).mu
           = <<<<"seed", "mu", 0>>, <<"in", "mu", 1>>, <<"seed", "mu", 1>>>>
    /\ Last(em_calls).weight[2] = before[Args.weight][2]

ParentShare(r) ==
    IF impl = "ka" /\ RLt(r, eps) THEN eps ELSE r

C19_SeedsAreHardAssignment ==
    pc = "seed_done" =>
        \A n \in 1 .. NObs :
            /\ {returned[1][n], returned[2][n]} = {Zero, One}
            /\ heap[1][1][n] < heap[1][2][n] => returned[1][n] = One
            /\ heap[1][2][n] < heap[1][1][n] => returned[2][n] = One

\* A call of split_component has returned.
SplitReturned ==
    /\ pc = "ops_done"
    /\ calls[1][1] = "split"

ValidSettings ==
    /\ covariance_type \in implemented(impl)
    /\ threshold # None
    /\ threshold[1] > 0
    /\ max_em_iterations >= 1

\* C21 as stated: every invalid covariance type, threshold or iteration cap
\* is rejected by the constructor, so a fit call never begins with one.
C21_NoInvalidSettingReachesFit ==
    pc = "fit_called" => ValidSettings

\* C21: an invalid covariance type is rejected by the constructor of both
\* modules; a threshold <= 0 or an iteration cap < 1 is rejected by the
\* constructor of mixture_search and by the first statements of fit of
\* mixture_ka, before anything is initialised; fit goes on with valid
\* settings only.
C21_InvalidSettingsRejectedBeforeFitWorks ==
    /\ pc \notin {"new", "rejected"} => covariance_type \in implemented(impl)
    /\ (impl = "search" /\ pc \notin {"new", "rejected"}) => ValidSettings
    /\ pc \in {"fit_validated", "fit_initialized", "fit_returned"}
          => ValidSettings
    /\ pc \in {"rejected", "fit_rejected"}
          => /\ raisedAt # None
             /\ raisedAt[1] \in {"ValueError", "NotImplementedError"}
             /\ iterations = 0
             /\ returned = None

\* fit of mixture_ka rejected a threshold that is not positive.
C21_Witness ==
    /\ impl = "ka"
    /\ pc = "fit_rejected"
    /\ threshold[1] <= 0
    /\ raisedAt = <<"ValueError", "fit">>

\* C22: a mixture whose covariance type is 'tied' or 'tied_diag' never gets
\* as far as initialising a fit, running a search round or returning a
\* result: the error comes first and nothing is changed.
C22_TiedNeverFits ==
    (\E i \in 1 .. Len(calls) :
        /\ calls[i][1] = "__init__"
        /\ strip_lower(calls[i][2]) \in {"tied", "tied_diag"})
    => /\ pc \notin {"fit_initialized", "fit_returned"}
       /\ iterations = 0
       /\ returned = None

(***************************************************************************)
(* Properties of the scoring call                                          *)
(***************************************************************************)

\* C23: every message length that the scoring call returns to the
\* controller is finite and strictly positive, in both modules.
C23_ReturnedMessageLengthFinitePositive ==
    pc = "scored" => IsFinite(returned) /\ RLt(Zero, returned)

(***************************************************************************)
(* Further properties of one run of expectation-maximization               *)
(***************************************************************************)

\* Every _expectation scores the mixture once and the run appends its
\* (ll, dl) to ll_dl, so the list counts the scorer's invocations.
ScorerCalls == Len(ll_dl)

\* C24 as stated: the evaluation of one candidate invokes the scorer once,
\* however many iterations its expectation-maximization needs.
C24_ScorerCalledOncePerCandidate ==
    pc \in {"em_returned", "em_kept"} => ScorerCalls = 1

\* C24: a run of expectation-maximization invokes the scorer once for its
\* starting state and once after every M-step, 1 + the number of pairs in
\* all: at least twice, at most max(2, max_em_iterations) times, and the
\* message length it returns is that of the last invocation.
C24_ScorerCalledOncePerExpectation ==
    pc \in {"em_returned", "em_kept"} =>
        /\ ScorerCalls = 1 + (iterations - 1)
        /\ ScorerCalls >= 2
        /\ ScorerCalls <= Max(2, max_em_iterations)
        /\ returned[6] = ll_dl[ScorerCalls][2]

\* C24 witness: a returned run of two pairs, scored three times.
C24_Witness ==
    /\ pc = "em_returned"
    /\ ScorerCalls = 3
    /\ iterations = 3

(***************************************************************************)
(* Properties of the Kullback-Leibler divergence                           *)
(***************************************************************************)

\* C25: the divergence the function returns is never negative: the upper
\* end of the interval that encloses it is >= 0 for every pair of
\* Gaussians, equal means and cov_b = c * cov_a with 0 < c < 1 included.
C25_DivergenceNonNegative ==
    pc = "kl_returned" => RGeq(returned.hi, Zero)

\* C26: the message length after a completed M-step/E-step pair is not
\* greater than the message length before the pair, within tolerance: the
\* change is not certainly above the tolerance.
C26_PairNeverIncreasesMessageLength ==
    pc = "pair_done" => ~RLt(Tol, returned.change.lo)

(***************************************************************************)
(* Further properties of the search of mixture_ka.py                       *)
(***************************************************************************)

\* C27: the incumbent's message length changes only when fit initialises it
\* and when a round is accepted, and then to a strictly lower value; a round
\* that is accepted lowers it and counts one more incumbent; so it never
\* rises, and the mixture returned is the last incumbent, whose message
\* length is the lowest the search ever held.
C27_IncumbentStrictlyDecreases ==
    /\ [][mindl' # mindl => (pc \in {"init", "select"} /\ mindl' < mindl)]_vars
    /\ [][(pc = "select" /\ pc' \notin Terminal) =>
             (mindl' < mindl /\ iterations' = iterations + 1)]_vars
    /\ [][(pc = "select" /\ pc' \in Terminal) =>
             <<mu', cov', weight', R', mindl', iterations'>>
                = <<mu, cov, weight, R, mindl, iterations>>]_vars
    /\ [](pc = "Converged" =>
             (returned = <<mu, cov, weight>> /\ mindl < inf))

\* C27 witness: a search that accepted one round, lowering the message
\* length from 2 to 0, and then returned.
C27_Witness ==
    /\ pc = "Converged"
    /\ iterations = 2
    /\ mindl = 0
    /\ returned = <<mu, cov, weight>>

\* The place of a family in the order of the three loops.
Rank(op) == CASE op = "split" -> 1 [] op = "delete" -> 2 [] op = "merge" -> 3

\* C28: within a family the kept candidate is replaced only by a candidate
\* of strictly lower message length, so among equals the lowest index
\* stays; between families of equal minimal message length the round
\* selects split before delete and delete before merge.
C28_TiesLowestIndexSplitDeleteMerge ==
    /\ [][(pc \in Families /\ pc' # "Failed") =>
             LET old == GetItem(best_perturbations, pc)
                 new == GetItem(best_perturbations', pc)
             IN  \/ new = old
                 \/ (Last(new) < Last(old) /\ new[1] = m)]_vars
    /\ [](pc = "select" =>
             \A i \in 1 .. Len(best_perturbations) :
                 LET item == best_perturbations[i]
                 IN  /\ Last(Selected[2]) <= Last(item[2])
                     /\ Last(item[2]) = Last(Selected[2])
                           => Rank(Selected[1]) <= Rank(item[1]))

\* C28 witness: a round of a two-component incumbent in which all six
\* candidates had the same message length: the split of component 0 is
\* selected.
C28_Witness ==
    /\ pc = "select"
    /\ weight.size = 2
    /\ Len(calls) = 6
    /\ Cardinality(roundDls) = 1
    /\ Len(best_perturbations) = 3
    /\ \A i \in 1 .. 3 : Len(best_perturbations[i][2]) = 7
    /\ Selected[1] = "split"
    /\ Selected[2][1] = 0

(***************************************************************************)
(* Further properties of the perturbation operators                        *)
(***************************************************************************)

\* C29: merge_component never pairs the indexed component with itself,
\* whatever the divergences (all infinite or nan included): the partner
\* differs from index, the merged state has K - 1 components, and every
\* component other than the two merged ones keeps its weight and its
\* responsibility row.
C29_NeverMergesWithItself ==
    merge_pair # None =>
        LET a == merge_pair.a_index + 1
            b == merge_pair.b_index + 1
            K == Len(before[Args.weight])
            new == em_calls[1]
            at(c) == IF c < Max(a, b) THEN c ELSE c - 1
        IN  /\ a # b
            /\ Len(new.weight) = K - 1
            /\ \A c \in (1 .. K) \ {a, b} :
                  /\ new.weight[at(c)] = before[Args.weight][c]
                  /\ new.responsibility[at(c)]
                        = before[Args.responsibility][c]

(***************************************************************************)
(* The warning flag of expectation-maximization                            *)
(***************************************************************************)

\* C30: the flag is true only if the run stopped without meeting the
\* threshold: when the relative change of the log-likelihood over the last
\* pair is at or below the threshold, meta["warnflag"] is false (and so no
\* warning is logged), whatever max_em_iterations >= 1 is.
C30_WarnflagOnlyWithoutConvergence ==
    (pc \in {"em_returned", "em_kept"}
        /\ RelativeDeltaLeq(ll_dl[Len(ll_dl)][1], ll_dl[Len(ll_dl) - 1][1],
                            threshold))
    => ~meta.warnflag

====
